---- MODULE Spec2Model ----
(***************************************************************************)
(* Model of the scene registry of Runtime/Core/Scene.cpp: the registry of  *)
(* GameObjects, the derived caches rebuilt by Scene::Resolve, removal of a *)
(* GameObject with its descendants, and saving/loading through the         *)
(* process-wide Serializer.                                                *)
(*                                                                         *)
(* GameObjects live on a heap: objs maps the address of every live         *)
(* GameObject to its fields.  A GameObject owns exactly one Transform, so  *)
(* the address of a GameObject also stands for its Transform; parent and   *)
(* children are the Transform's links.  Reading a field of an address that *)
(* is not in DOMAIN objs is a use of a destroyed object.                   *)
(***************************************************************************)
EXTENDS Integers, Sequences, FiniteSets, TLC

\* ---------------------------------------------------------------- bounds
\* GameObjects constructed by CreateGameObject over a whole run
MaxObjects == 3
\* components attached by AddComponent calls of the editor, per scene
MaxComponents == 2
\* resources the editor loads into the ResourceManager
MaxResources == 1
\* edits of the scene made once a scene file has been written
MaxEditsAfterSave == 0
\* tasks given to the worker in one run
MaxTasks == 2
\* resource paths a scene file of an earlier run stores
MaxStoredPaths == 3
\* worker threads that run queued tasks side by side
MaxThreads == 2

NULL == 0
Addr == 1..MaxObjects

\* component types Scene::Resolve looks at, plus the two that
\* CreateSkybox/CreateCamera attach
ClassifiedTypes == {"Camera", "Skybox", "MeshFilter", "MeshRenderer", "Light"}
\* the ones the editor attaches in this model
AttachableTypes == {"Camera", "MeshFilter", "MeshRenderer", "Light"}
LightTypes == {"Directional", "Point"}
\* a light type Scene::Resolve has no vector for
OtherLightTypes == {"Spot"}
\* the two components that make a GameObject a renderable
MeshTypes == {"MeshFilter", "MeshRenderer"}

VARIABLES
    objs,                \* heap: address -> fields of the live GameObject
    nextId,              \* next identifier the GameObject constructor generates
    m_gameObjects,       \* Scene::m_gameObjects (vector<GameObject*>)
    m_mainCamera,        \* Scene::m_mainCamera
    m_skybox,            \* Scene::m_skybox
    m_renderables,       \* Scene::m_renderables
    m_lightsDirectional, \* Scene::m_lightsDirectional
    m_lightsPoint,       \* Scene::m_lightsPoint
    pc,                  \* position of the calling thread
    rm,                  \* locals of the RemoveGameObject call in progress
    call,                \* the call in progress or last returned, and the
                         \* registry as it was when the call was entered
    callLog,             \* what that call has done so far, in order
    files,               \* file system: path -> whether it exists, and its data
    m_resources,         \* file paths of the resources the ResourceManager holds
    saved,               \* the scene as it was when the scene file was written
    edits,               \* edits of the scene made since a scene file exists
    held,                \* a GameObject* a caller keeps, and the identifier
                         \* its GameObject had when the caller got it
    handlers,            \* EventHandler: the <<event, handler>> pairs subscribed
    tasks,               \* Multithreading: the tasks queued by AddTask
    worker,              \* the worker thread: its position, task and locals
    pool                 \* the threads of a pool of workers: position and task of each

caches == <<m_mainCamera, m_skybox, m_renderables, m_lightsDirectional, m_lightsPoint>>
vars == <<objs, nextId, m_gameObjects, m_mainCamera, m_skybox, m_renderables,
          m_lightsDirectional, m_lightsPoint, pc, rm, call, callLog,
          files, m_resources, saved, edits, held, handlers, tasks, worker, pool>>
io == <<files, m_resources, saved>>
engine == <<handlers, tasks, worker, pool>>

\* ---------------------------------------------------------------- helpers
Range(s) == {s[i] : i \in 1..Len(s)}

Min(S) == CHOOSE x \in S : \A y \in S : x <= y

\* the cache values as one record
Caches == [mainCamera |-> m_mainCamera, skybox |-> m_skybox,
           renderables |-> m_renderables,
           lightsDirectional |-> m_lightsDirectional,
           lightsPoint |-> m_lightsPoint]

EmptyCaches == [mainCamera |-> NULL, skybox |-> NULL, renderables |-> <<>>,
                lightsDirectional |-> <<>>, lightsPoint |-> <<>>]

\* the type a Light has when it is constructed
DefaultLightType == "Point"
\* the name a GameObject has when it is constructed
DefaultName == "GameObject"
\* the names Scene.cpp gives with SetName
Names == {DefaultName, "Skybox", "Camera", "DirectionalLight"}

\* GameObject::GameObject: a generated identifier, a name and a Transform only
NewGameObject(id) ==
    [id |-> id, name |-> DefaultName, comps |-> {}, lightType |-> DefaultLightType,
     parent |-> NULL, children |-> <<>>]

\* operator new: the address of the constructed GameObject
NewAddr(os) == Min(Addr \ DOMAIN os)

Alloc(os, a, g) == [x \in DOMAIN os \cup {a} |-> IF x = a THEN g ELSE os[x]]

\* delete: the GameObject and the components it owns are gone
Free(os, a) == [x \in DOMAIN os \ {a} |-> os[x]]

\* ---------------------------------------------------------------- Resolve
\* mutant: a camera or a skybox found earlier is not overwritten
ResolveStep_FirstKept(os, g, acc) ==
    LET a1 == IF "Camera" \in os[g].comps /\ acc.mainCamera = NULL
              THEN [acc EXCEPT !.mainCamera = g] ELSE acc
        a2 == IF "Skybox" \in os[g].comps /\ a1.skybox = NULL
              THEN [a1 EXCEPT !.skybox = g] ELSE a1
        a3 == IF "MeshRenderer" \in os[g].comps /\ "MeshFilter" \in os[g].comps
              THEN [a2 EXCEPT !.renderables = Append(@, g)] ELSE a2
        a4 == IF "Light" \in os[g].comps
              THEN IF os[g].lightType = "Directional"
                   THEN [a3 EXCEPT !.lightsDirectional = Append(@, g)]
                   ELSE IF os[g].lightType = "Point"
                        THEN [a3 EXCEPT !.lightsPoint = Append(@, g)]
                        ELSE a3
              ELSE a3
    IN a4

\* mutant: a light that is not directional is taken for a point light
ResolveStep_OtherAsPoint(os, g, acc) ==
    LET a1 == IF "Camera" \in os[g].comps
              THEN [acc EXCEPT !.mainCamera = g] ELSE acc
        a2 == IF "Skybox" \in os[g].comps
              THEN [a1 EXCEPT !.skybox = g] ELSE a1
        a3 == IF "MeshRenderer" \in os[g].comps /\ "MeshFilter" \in os[g].comps
              THEN [a2 EXCEPT !.renderables = Append(@, g)] ELSE a2
        a4 == IF "Light" \in os[g].comps
              THEN IF os[g].lightType = "Directional"
                   THEN [a3 EXCEPT !.lightsDirectional = Append(@, g)]
                   ELSE [a3 EXCEPT !.lightsPoint = Append(@, g)]
              ELSE a3
    IN a4

\* one iteration of the loop of Scene::Resolve
ResolveStep(os, g, acc) ==
    LET a1 == IF "Camera" \in os[g].comps
              THEN [acc EXCEPT !.mainCamera = g] ELSE acc
        a2 == IF "Skybox" \in os[g].comps
              THEN [a1 EXCEPT !.skybox = g] ELSE a1
        a3 == IF "MeshRenderer" \in os[g].comps /\ "MeshFilter" \in os[g].comps
              THEN [a2 EXCEPT !.renderables = Append(@, g)] ELSE a2
        a4 == IF "Light" \in os[g].comps
              THEN IF os[g].lightType = "Directional"
                   THEN [a3 EXCEPT !.lightsDirectional = Append(@, g)]
                   ELSE IF os[g].lightType = "Point"
                        THEN [a3 EXCEPT !.lightsPoint = Append(@, g)]
                        ELSE a3
              ELSE a3
    IN a4

RECURSIVE ResolveLoop(_, _, _, _)
ResolveLoop(os, gos, i, acc) ==
    IF i > Len(gos) THEN acc
    ELSE ResolveLoop(os, gos, i + 1, ResolveStep(os, gos[i], acc))

\* mutant: the two pointers are not reset
ResolveCleared_PointersKept(c) ==
    [c EXCEPT !.renderables = <<>>, !.lightsDirectional = <<>>, !.lightsPoint = <<>>]

\* mutant: m_renderables is not cleared
ResolveCleared_RenderablesKept(c) ==
    [c EXCEPT !.lightsDirectional = <<>>, !.lightsPoint = <<>>,
              !.mainCamera = NULL, !.skybox = NULL]

\* the head of Scene::Resolve: of the caches c it finds, the three vectors
\* are cleared and the two pointers reset
ResolveCleared(c) ==
    [c EXCEPT !.renderables = <<>>, !.lightsDirectional = <<>>,
              !.lightsPoint = <<>>, !.mainCamera = NULL, !.skybox = NULL]

\* Scene::Resolve: the caches it leaves for registry gos over heap os
Resolve(os, gos) == ResolveLoop(os, gos, 1, ResolveCleared(Caches))

SetCaches(c) ==
    /\ m_mainCamera' = c.mainCamera
    /\ m_skybox' = c.skybox
    /\ m_renderables' = c.renderables
    /\ m_lightsDirectional' = c.lightsDirectional
    /\ m_lightsPoint' = c.lightsPoint

\* ---------------------------------------------------------------- Transform
\* Transform::IsRoot
IsRoot(os, g) == os[g].parent = NULL

RECURSIVE GetDescendants(_, _)
RECURSIVE DescendantsOfChildren(_, _, _)
\* Transform::GetDescendants: each child followed by its own descendants
GetDescendants(os, t) == DescendantsOfChildren(os, os[t].children, 1)
DescendantsOfChildren(os, kids, i) ==
    IF i > Len(kids) THEN <<>>
    ELSE <<kids[i]>> \o GetDescendants(os, kids[i])
                     \o DescendantsOfChildren(os, kids, i + 1)

RECURSIVE ResolveChildrenRecursively(_, _, _)
RECURSIVE ResolveEachChild(_, _, _, _)
\* Transform::ResolveChildrenRecursively: the child set of t is rebuilt from
\* the parent links of the GameObjects of the registry, and so is the child
\* set of every child found
ResolveChildrenRecursively(os, gos, t) ==
    LET kids == SelectSeq(gos, LAMBDA g : os[g].parent = t)
    IN ResolveEachChild([os EXCEPT ![t].children = kids], gos, kids, 1)
ResolveEachChild(os, gos, kids, i) ==
    IF i > Len(kids) THEN os
    ELSE ResolveEachChild(ResolveChildrenRecursively(os, gos, kids[i]),
                          gos, kids, i + 1)

RECURSIVE AncestorIn(_, _, _)
\* x is a proper ancestor of y along the parent links par (address -> parent)
AncestorIn(par, x, y) ==
    /\ y \in DOMAIN par
    /\ par[y] # NULL
    /\ (par[y] = x \/ AncestorIn(par, x, par[y]))

\* the parent links of the live GameObjects
ParentsOf(os) == [a \in DOMAIN os |-> os[a].parent]

\* x is a proper ancestor of y along the parent links of os
IsAncestor(os, x, y) == AncestorIn(ParentsOf(os), x, y)

\* ---------------------------------------------------------------- calls
NoCall == [op |-> "none", arg |-> NULL, ret |-> TRUE, parents |-> <<>>, gameObjects |-> <<>>]

\* ---------------------------------------------------------------- files
SCENE_EXTENSION == ".directus"
\* a path is its stem and its extension
ScenePaths == {<<"x", "">>, <<"x", SCENE_EXTENSION>>}
\* FileSystem::GetExtensionFromPath
GetExtensionFromPath(path) == path[2]
\* the file path SaveToFile writes to
WithSceneExtension(path) ==
    IF GetExtensionFromPath(path) # SCENE_EXTENSION
    THEN <<path[1], SCENE_EXTENSION>> ELSE path
NoFile == [exists |-> FALSE, data |-> <<>>]
\* FileSystem::FileExists
FileExists(path) == files[path].exists
SceneFileWritten == \E path \in ScenePaths : FileExists(path)

\* resource files, and the kind FileSystem::IsSupported...File gives each
\* (the last path stands for one that more than one of the tests accepts)
ResourcePaths == {"model.obj", "wood.mat", "sky.png", "MouseLook.as", "scan.any"}
IsSupportedMeshFile(r) == r \in {"model.obj", "scan.any"}
IsSupportedMaterialFile(r) == r \in {"wood.mat", "scan.any"}
IsSupportedImageFile(r) == r \in {"sky.png", "scan.any"}
\* the resources the editor loads while the scene is built
EditorResources == {"model.obj", "MouseLook.as"}

\* an edit of the scene is allowed
CanEdit == pc = "idle" /\ (SceneFileWritten => edits < MaxEditsAfterSave)
Edited == edits' = IF SceneFileWritten THEN edits + 1 ELSE edits

\* a call that needs no record of the registry it was entered with
Called(op, arg) ==
    [op |-> op, arg |-> arg, ret |-> TRUE, parents |-> <<>>, gameObjects |-> <<>>]
\* a call entered with the registry and the parent links as they are now
Entered(op, arg) ==
    [op |-> op, arg |-> arg, ret |-> TRUE, gameObjects |-> m_gameObjects,
     parents |-> ParentsOf(objs)]
NoRm == [gameObject |-> NULL, descendants |-> <<>>, i |-> 0, parent |-> NULL]
\* no pointer is kept
NoHeld == [addr |-> NULL, id |-> NULL]
\* the worker thread waits for a task; ran lists the tasks it has run
NoWork == [pc |-> "wait", task |-> <<>>, i |-> 0, ran |-> <<>>]

\* worker threads of a pool
Threads == 1..MaxThreads
\* every thread of the pool waits for a task; ran counts the tasks it has run
NoPool == [t \in Threads |-> [pc |-> "wait", task |-> <<>>, ran |-> 0]]

Init ==
    /\ objs = <<>>
    /\ nextId = 1
    /\ m_gameObjects = <<>>
    /\ m_mainCamera = NULL
    /\ m_skybox = NULL
    /\ m_renderables = <<>>
    /\ m_lightsDirectional = <<>>
    /\ m_lightsPoint = <<>>
    /\ pc = "idle"
    /\ rm = NoRm
    /\ call = NoCall
    /\ callLog = <<>>
    /\ files = [path \in ScenePaths |-> NoFile]
    /\ m_resources = <<>>
    /\ saved = <<>>
    /\ edits = 0
    /\ held = NoHeld
    /\ handlers = {}
    /\ tasks = <<>>
    /\ worker = NoWork
    /\ pool = NoPool

\* what the AddComponent calls of a caller do, in order: each attaches its
\* component and resolves the scene
AddComponentCalls(compSeq) ==
    [i \in 1..(2 * Len(compSeq)) |->
        IF i % 2 = 1 THEN <<"AddComponent", compSeq[(i + 1) \div 2]>>
        ELSE <<"Resolve", NULL>>]

\* Scene::CreateGameObject followed by the SetName, AddComponent and
\* SetLightType calls of the caller: the heap and the registry after the
\* push_back, the components attached after the Resolve that follows it,
\* the caches after the Resolve of the last AddComponent, and the type a
\* Light is given after that
CreatedIn(os, gameObjects, id, name, compSeq, lightType) ==
    LET a   == NewAddr(os)
        os1 == Alloc(os, a, NewGameObject(id))
        gos == Append(gameObjects, a)
        os2 == [os1 EXCEPT ![a].name = name, ![a].comps = Range(compSeq)]
        os3 == [os2 EXCEPT ![a].lightType = lightType]
    IN [addr |-> a,
        objs |-> os3,
        gameObjects |-> gos,
        caches |-> Resolve(os2, gos),
        log |-> <<<<"push_back", a>>, <<"Resolve", NULL>>>>
                \o AddComponentCalls(compSeq)
                \o (IF lightType # DefaultLightType
                    THEN <<<<"SetLightType", lightType>>>> ELSE <<>>)]

\* the same on the scene as it is
Created(name, compSeq, lightType) ==
    CreatedIn(objs, m_gameObjects, nextId, name, compSeq, lightType)

CreateWith(op, name, compSeq, lightType) ==
    /\ CanEdit
    /\ Edited
    /\ nextId <= MaxObjects
    /\ LET c == Created(name, compSeq, lightType)
       IN /\ objs' = c.objs
          /\ m_gameObjects' = c.gameObjects
          /\ SetCaches(c.caches)
          /\ call' = Called(op, c.addr)
          /\ callLog' = c.log
    /\ nextId' = nextId + 1
    /\ UNCHANGED <<held, engine, pc, rm, io>>

CreateGameObject == CreateWith("CreateGameObject", DefaultName, <<>>, DefaultLightType)
CreateSkybox ==
    CreateWith("CreateSkybox", "Skybox", <<"LineRenderer", "Skybox">>, DefaultLightType)
CreateCamera ==
    CreateWith("CreateCamera", "Camera", <<"Camera", "Script">>, DefaultLightType)
CreateDirectionalLight ==
    CreateWith("CreateDirectionalLight", "DirectionalLight", <<"Light">>, "Directional")

\* number of components the editor attached to the GameObjects of the scene
Attached(os) ==
    LET RECURSIVE Sum(_)
        Sum(S) == IF S = {} THEN 0
                  ELSE LET a == Min(S)
                       IN Cardinality(os[a].comps \cap ClassifiedTypes) + Sum(S \ {a})
    IN Sum(DOMAIN os)

\* GameObject::AddComponent<T> called by the editor on a GameObject of the
\* scene: the component is attached and the scene is resolved; a Light then
\* gets its type set (Light::SetLightType), as in Scene::CreateDirectionalLight
AddComponent(g, t, lt) ==
    /\ CanEdit
    /\ Edited
    /\ g \in Range(m_gameObjects)
    /\ t \notin objs[g].comps
    /\ t # "Light" => lt = DefaultLightType
    /\ Attached(objs) < MaxComponents
    /\ LET os1 == [objs EXCEPT ![g].comps = @ \cup {t}]
       IN /\ SetCaches(Resolve(os1, m_gameObjects))
          /\ objs' = [os1 EXCEPT ![g].lightType = lt]
    /\ call' = Called("AddComponent", g)
    /\ callLog' = AddComponentCalls(<<t>>)
                   \o (IF lt # DefaultLightType
                       THEN <<<<"SetLightType", lt>>>> ELSE <<>>)
    /\ UNCHANGED <<held, engine, nextId, m_gameObjects, pc, rm, io>>

\* Transform::SetParent: c becomes a child of p (a root when p is NULL); the
\* child sets of the old and of the new parent are rebuilt
SetParent(c, p) ==
    /\ CanEdit
    /\ Edited
    /\ c \in Range(m_gameObjects)
    /\ p \in Range(m_gameObjects) \cup {NULL}
    /\ p # c
    /\ p # objs[c].parent
    /\ p # NULL => ~IsAncestor(objs, c, p)
    /\ LET old == objs[c].parent
           os1 == [objs EXCEPT ![c].parent = p]
           os2 == IF old # NULL
                  THEN ResolveChildrenRecursively(os1, m_gameObjects, old) ELSE os1
           os3 == IF p # NULL
                  THEN ResolveChildrenRecursively(os2, m_gameObjects, p) ELSE os2
       IN objs' = os3
    /\ call' = Called("SetParent", NULL)
    /\ callLog' = <<>>
    /\ UNCHANGED <<held, engine, nextId, m_gameObjects, caches, pc, rm, io>>

\* Scene::Resolve as the handler of EVENT_UPDATE; the call records whether
\* it is the first Resolve (1) or one that follows a Resolve directly (2)
ResolveTick ==
    /\ pc = "idle"
    /\ SetCaches(Resolve(objs, m_gameObjects))
    /\ call' = Called("Resolve", IF call.op = "Resolve" THEN 2 ELSE 1)
    /\ callLog' = <<<<"Resolve", NULL>>>>
    /\ UNCHANGED <<held, engine, objs, nextId, m_gameObjects, pc, rm, io, edits>>

\* ---------------------------------------------------------------- removal
\* mutant: the comparison of identifiers is dropped
FirstWithID_NoCompare(os, gos, id, i) == IF Len(gos) = 0 THEN 0 ELSE 1

\* index of the first GameObject of gos whose identifier is id, 0 if none
RECURSIVE FirstWithID(_, _, _, _)
FirstWithID(os, gos, id, i) ==
    IF i > Len(gos) THEN 0
    ELSE IF os[gos[i]].id = id THEN i
    ELSE FirstWithID(os, gos, id, i + 1)

Erase(s, i) == SubSeq(s, 1, i - 1) \o SubSeq(s, i + 1, Len(s))

\* mutant: the Resolve after the erase is dropped
RemoveSingleGameObject_NoResolve(os, gos, c, log, g) ==
    LET i == FirstWithID(os, gos, os[g].id, 1)
    IN IF i = 0
       THEN [objs |-> os, gameObjects |-> gos, caches |-> c, log |-> log]
       ELSE [objs |-> Free(os, gos[i]), gameObjects |-> Erase(gos, i),
             caches |-> c,
             log |-> log \o <<<<"delete", gos[i]>>, <<"erase", gos[i]>>>>]

\* mutant: the scene is resolved also when no GameObject was found
RemoveSingleGameObject_AlwaysResolved(os, gos, c, log, g) ==
    LET i == FirstWithID(os, gos, os[g].id, 1)
    IN IF i = 0
       THEN [objs |-> os, gameObjects |-> gos, caches |-> Resolve(os, gos),
             log |-> log \o <<<<"Resolve", NULL>>>>]
       ELSE LET os1  == Free(os, gos[i])
                gos1 == Erase(gos, i)
            IN [objs |-> os1, gameObjects |-> gos1,
                caches |-> Resolve(os1, gos1),
                log |-> log \o <<<<"delete", gos[i]>>, <<"erase", gos[i]>>,
                                 <<"Resolve", NULL>>>>]

\* Scene::RemoveSingleGameObject(g) for g not null: heap, registry, caches
\* and log after the call
RemoveSingleGameObject(os, gos, c, log, g) ==
    LET i == FirstWithID(os, gos, os[g].id, 1)
    IN IF i = 0
       THEN [objs |-> os, gameObjects |-> gos, caches |-> c, log |-> log]
       ELSE LET os1  == Free(os, gos[i])
                gos1 == Erase(gos, i)
            IN [objs |-> os1, gameObjects |-> gos1,
                caches |-> Resolve(os1, gos1),
                log |-> log \o <<<<"delete", gos[i]>>, <<"erase", gos[i]>>,
                                 <<"Resolve", NULL>>>>]

\* Scene::RemoveGameObject(nullptr)
RemoveGameObjectNull ==
    /\ pc = "idle"
    /\ call' = Called("RemoveGameObjectNull", NULL)
    /\ callLog' = <<>>
    /\ UNCHANGED <<held, engine, objs, nextId, m_gameObjects, caches, pc, rm, io, edits>>

\* Scene::RemoveGameObject(g): the descendants are collected
RemoveGameObjectBegin(g) ==
    /\ CanEdit
    /\ Edited
    /\ g \in Range(m_gameObjects)
    /\ rm' = [gameObject |-> g, descendants |-> GetDescendants(objs, g),
              i |-> 1, parent |-> NULL]
    /\ pc' = "rm_descendants"
    /\ call' = Entered("RemoveGameObject", g)
    /\ callLog' = <<>>
    /\ UNCHANGED <<held, engine, objs, nextId, m_gameObjects, caches, io>>

\* one iteration of the loop over the descendants
RemoveDescendant ==
    /\ pc = "rm_descendants"
    /\ rm.i <= Len(rm.descendants)
    /\ LET r == RemoveSingleGameObject(objs, m_gameObjects, Caches, callLog,
                                       rm.descendants[rm.i])
       IN /\ objs' = r.objs
          /\ m_gameObjects' = r.gameObjects
          /\ SetCaches(r.caches)
          /\ callLog' = r.log
    /\ rm' = [rm EXCEPT !.i = @ + 1]
    /\ UNCHANGED <<held, engine, nextId, pc, call, io, edits>>

\* the parent is read, then the GameObject itself is removed
RemoveSelf ==
    /\ pc = "rm_descendants"
    /\ rm.i > Len(rm.descendants)
    /\ LET parent == objs[rm.gameObject].parent
           r == RemoveSingleGameObject(objs, m_gameObjects, Caches, callLog,
                                       rm.gameObject)
       IN /\ objs' = r.objs
          /\ m_gameObjects' = r.gameObjects
          /\ SetCaches(r.caches)
          /\ callLog' = r.log
          /\ rm' = IF parent # NULL THEN [rm EXCEPT !.parent = parent] ELSE NoRm
          /\ pc' = IF parent # NULL THEN "rm_relink" ELSE "idle"
    /\ UNCHANGED <<held, engine, nextId, call, io, edits>>

\* mutant: the parent's child set is left as it was
RemoveRelink_Skipped ==
    /\ pc = "rm_relink"
    /\ callLog' = Append(callLog, <<"ResolveChildrenRecursively", rm.parent>>)
    /\ pc' = "idle"
    /\ rm' = NoRm
    /\ UNCHANGED <<held, engine, objs, nextId, m_gameObjects, caches, call, io, edits>>

\* mutant: the caches are resolved once more after the re-link
RemoveRelink_ThenResolve ==
    /\ pc = "rm_relink"
    /\ objs' = ResolveChildrenRecursively(objs, m_gameObjects, rm.parent)
    /\ SetCaches(Resolve(objs', m_gameObjects))
    /\ callLog' = callLog \o <<<<"ResolveChildrenRecursively", rm.parent>>,
                                <<"Resolve", NULL>>>>
    /\ pc' = "idle"
    /\ rm' = NoRm
    /\ UNCHANGED <<held, engine, nextId, m_gameObjects, call, io, edits>>

\* the child set of the parent is rebuilt
RemoveRelink ==
    /\ pc = "rm_relink"
    /\ objs' = ResolveChildrenRecursively(objs, m_gameObjects, rm.parent)
    /\ callLog' = Append(callLog, <<"ResolveChildrenRecursively", rm.parent>>)
    /\ pc' = "idle"
    /\ rm' = NoRm
    /\ UNCHANGED <<held, engine, nextId, m_gameObjects, caches, call, io, edits>>

\* ---------------------------------------------------------------- Serializer
\* what Serializer::WriteInt and Serializer::WriteSTR put into the stream
WriteInt(n) == <<"int", n>>
WriteSTR(x) == <<"str", x>>
\* Serializer::WriteVectorSTR: the count, then the strings
WriteVectorSTR(v) == <<WriteInt(Len(v))>> \o [i \in 1..Len(v) |-> WriteSTR(v[i])]
\* Serializer::ReadVectorSTR at position pos of data: the strings, and the
\* position after them
ReadVectorSTR(data, pos) ==
    LET n == data[pos][2]
    IN [value |-> [i \in 1..n |-> data[pos + i][2]], pos |-> pos + n + 1]

RECURSIVE Concat(_)
\* the streams s[1], s[2], ... one after the other
Concat(s) == IF s = <<>> THEN <<>> ELSE Head(s) \o Concat(Tail(s))

\* the order in which a GameObject writes its components
ComponentOrder ==
    <<"Camera", "Skybox", "MeshFilter", "MeshRenderer", "Light", "LineRenderer", "Script">>

RECURSIVE SerializeGameObject(_, _)
\* GameObject::Serialize: the identifier, the name, the component types, the data of
\* the components (a Light writes its type), the identifiers of the children,
\* then every child in turn
SerializeGameObject(os, g) ==
    LET types == SelectSeq(ComponentOrder, LAMBDA t : t \in os[g].comps)
        kids  == os[g].children
    IN <<WriteSTR(os[g].id), WriteSTR(os[g].name)>>
       \o WriteVectorSTR(types)
       \o (IF "Light" \in os[g].comps THEN <<WriteSTR(os[g].lightType)>> ELSE <<>>)
       \o WriteVectorSTR([i \in 1..Len(kids) |-> os[kids[i]].id])
       \o Concat([i \in 1..Len(kids) |-> SerializeGameObject(os, kids[i])])

RECURSIVE NewGameObjects(_, _, _)
\* new GameObject + SetID for each identifier of ids, appended to the registry
NewGameObjects(os, gos, ids) ==
    IF ids = <<>> THEN [objs |-> os, gameObjects |-> gos]
    ELSE LET a == NewAddr(os)
         IN NewGameObjects(Alloc(os, a, NewGameObject(Head(ids))),
                           Append(gos, a), Tail(ids))

RECURSIVE Deserialize(_, _, _, _, _, _)
RECURSIVE DeserializeEach(_, _, _, _, _, _, _)
\* GameObject::Deserialize(parent) of g reading data from position pos: its
\* own fields, then its children, which are created, appended to the registry
\* and deserialized in turn.  Gives the heap, the registry and the position
\* after the GameObject.
Deserialize(os, gos, data, pos, g, parent) ==
    LET types == ReadVectorSTR(data, pos + 2)
        comps == Range(types.value)
        light == "Light" \in comps
        p1    == types.pos + (IF light THEN 1 ELSE 0)
        kids  == ReadVectorSTR(data, p1)
        os1   == [os EXCEPT ![g].id = data[pos][2],
                            ![g].name = data[pos + 1][2],
                            ![g].comps = comps,
                            ![g].lightType = IF light THEN data[types.pos][2] ELSE @,
                            ![g].parent = parent]
        made  == NewGameObjects(os1, gos, kids.value)
        new   == SubSeq(made.gameObjects, Len(gos) + 1, Len(made.gameObjects))
        os2   == [made.objs EXCEPT ![g].children = new]
    IN DeserializeEach(os2, made.gameObjects, data, kids.pos, new, 1, g)
DeserializeEach(os, gos, data, pos, kids, i, parent) ==
    IF i > Len(kids) THEN [objs |-> os, gameObjects |-> gos, pos |-> pos]
    ELSE LET r == Deserialize(os, gos, data, pos, kids[i], parent)
         IN DeserializeEach(r.objs, r.gameObjects, data, r.pos, kids, i + 1, parent)

\* ---------------------------------------------------------------- save
\* mutant: the IsRoot test is dropped
GetRootGameObjects_All(os, gos) == gos

\* Scene::GetRootGameObjects
GetRootGameObjects(os, gos) == SelectSeq(gos, LAMBDA g : IsRoot(os, g))

\* what Scene::SaveToFile writes between StartWriting and StopWriting, as
\* the calls it makes on the Serializer, in order
SaveCalls(os, gos, resourcePaths) ==
    LET roots == GetRootGameObjects(os, gos)
    IN <<<<"WriteVectorSTR", WriteVectorSTR(resourcePaths)>>,
         <<"WriteInt", <<WriteInt(Len(roots))>>>>>>
       \o [i \in 1..Len(roots) |-> <<"WriteSTR", <<WriteSTR(os[roots[i]].id)>>>>]
       \o [i \in 1..Len(roots) |-> <<"Serialize", SerializeGameObject(os, roots[i])>>]

\* the data of the file once those calls are made
Written(calls) == Concat([i \in 1..Len(calls) |-> calls[i][2]])

\* the scene as the identifiers of its GameObjects, their parents'
\* identifiers and the classification Resolve would give, by identifier
IdOf(os, a) == IF a = NULL THEN NULL ELSE os[a].id
SceneById(os, gos) ==
    LET c == Resolve(os, gos)
        ids(q) == {os[q[i]].id : i \in 1..Len(q)}
    IN [count |-> Len(gos),
        ids |-> ids(gos),
        parentOf |-> {<<os[a].id, IdOf(os, os[a].parent)>> : a \in Range(gos)},
        cameras |-> {os[a].id : a \in {b \in Range(gos) : "Camera" \in os[b].comps}},
        mainCamera |-> IdOf(os, c.mainCamera),
        lightsDirectional |-> ids(c.lightsDirectional),
        renderables |-> ids(c.renderables)]

\* mutant: the result of Serializer::StartWriting is ignored
SaveToFile_OpenUnchecked(path, opened) ==
    /\ pc = "idle"
    /\ LET filePath == WithSceneExtension(path)
           calls == SaveCalls(objs, m_gameObjects, m_resources)
       IN /\ callLog' = <<<<"SaveResourceMetadata", NULL>>,
                          <<"StartWriting", opened>>>>
                        \o calls \o <<<<"StopWriting", NULL>>>>
          /\ files' = IF opened
                      THEN [files EXCEPT ![filePath] =
                               [exists |-> TRUE, data |-> Written(calls)]]
                      ELSE files
          /\ saved' = IF opened THEN SceneById(objs, m_gameObjects) ELSE saved
          /\ call' = [Called("SaveToFile", filePath) EXCEPT !.ret = TRUE]
    /\ UNCHANGED <<held, engine, objs, nextId, m_gameObjects, caches, pc, rm, m_resources, edits>>

\* mutant: the resource metadata is saved once the stream is open
SaveToFile_FlushAfterOpen(path, opened) ==
    /\ pc = "idle"
    /\ LET filePath == WithSceneExtension(path)
           calls == SaveCalls(objs, m_gameObjects, m_resources)
       IN IF ~opened
          THEN /\ callLog' = <<<<"StartWriting", FALSE>>>>
               /\ call' = [Called("SaveToFile", filePath) EXCEPT !.ret = FALSE]
               /\ UNCHANGED <<files, saved>>
          ELSE /\ callLog' = <<<<"StartWriting", TRUE>>,
                               <<"SaveResourceMetadata", NULL>>>>
                             \o calls \o <<<<"StopWriting", NULL>>>>
               /\ files' = [files EXCEPT ![filePath] =
                               [exists |-> TRUE, data |-> Written(calls)]]
               /\ saved' = SceneById(objs, m_gameObjects)
               /\ call' = [Called("SaveToFile", filePath) EXCEPT !.ret = TRUE]
    /\ UNCHANGED <<held, engine, objs, nextId, m_gameObjects, caches, pc, rm, m_resources, edits>>

\* mutant: the stream is closed on the failing exit too
SaveToFile_StopsUnopened(path, opened) ==
    /\ pc = "idle"
    /\ LET filePath == WithSceneExtension(path)
           calls == SaveCalls(objs, m_gameObjects, m_resources)
       IN IF ~opened
          THEN /\ callLog' = <<<<"SaveResourceMetadata", NULL>>,
                               <<"StartWriting", FALSE>>, <<"StopWriting", NULL>>>>
               /\ call' = [Called("SaveToFile", filePath) EXCEPT !.ret = FALSE]
               /\ UNCHANGED <<files, saved>>
          ELSE /\ callLog' = <<<<"SaveResourceMetadata", NULL>>,
                               <<"StartWriting", TRUE>>>>
                             \o calls \o <<<<"StopWriting", NULL>>>>
               /\ files' = [files EXCEPT ![filePath] =
                               [exists |-> TRUE, data |-> Written(calls)]]
               /\ saved' = SceneById(objs, m_gameObjects)
               /\ call' = [Called("SaveToFile", filePath) EXCEPT !.ret = TRUE]
    /\ UNCHANGED <<held, engine, objs, nextId, m_gameObjects, caches, pc, rm, m_resources, edits>>

\* Scene::SaveToFile(path); opened tells whether Serializer::StartWriting
\* manages to open the file
SaveToFile(path, opened) ==
    /\ pc = "idle"
    /\ LET filePath == WithSceneExtension(path)
           calls == SaveCalls(objs, m_gameObjects, m_resources)
       IN IF ~opened
          THEN /\ callLog' = <<<<"SaveResourceMetadata", NULL>>,
                               <<"StartWriting", FALSE>>>>
               /\ call' = [Called("SaveToFile", filePath) EXCEPT !.ret = FALSE]
               /\ UNCHANGED <<files, saved>>
          ELSE /\ callLog' = <<<<"SaveResourceMetadata", NULL>>,
                               <<"StartWriting", TRUE>>>>
                             \o calls \o <<<<"StopWriting", NULL>>>>
               /\ files' = [files EXCEPT ![filePath] =
                               [exists |-> TRUE, data |-> Written(calls)]]
               /\ saved' = SceneById(objs, m_gameObjects)
               /\ call' = [Called("SaveToFile", filePath) EXCEPT !.ret = TRUE]
    /\ UNCHANGED <<held, engine, objs, nextId, m_gameObjects, caches, pc, rm, m_resources, edits>>

\* ---------------------------------------------------------------- clear
\* what Scene::Clear does, in order
ClearCalls(gos) ==
    [i \in 1..Len(gos) |-> <<"delete", gos[i]>>]
    \o <<<<"Unload", NULL>>, <<"Scripting::Reset", NULL>>,
         <<"Physics::Reset", NULL>>, <<"Renderer::Clear", NULL>>>>

\* mutant: the two cache pointers are not reset
ClearedScene_PointersKept ==
    [objs |-> <<>>, gameObjects |-> <<>>, resources |-> <<>>,
     caches |-> [EmptyCaches EXCEPT !.mainCamera = m_mainCamera, !.skybox = m_skybox]]

\* mutant: the GameObjects of the registry are not deleted
ClearedScene_NotDeleted ==
    [objs |-> objs, gameObjects |-> <<>>, resources |-> <<>>, caches |-> EmptyCaches]

\* the scene Scene::Clear leaves: every GameObject deleted, the registry and
\* the caches empty, the resource cache unloaded
ClearedScene ==
    [objs |-> <<>>, gameObjects |-> <<>>, resources |-> <<>>, caches |-> EmptyCaches]

\* Scene::Clear
Clear ==
    /\ pc = "idle"
    /\ objs' = ClearedScene.objs
    /\ m_gameObjects' = ClearedScene.gameObjects
    /\ SetCaches(ClearedScene.caches)
    /\ m_resources' = ClearedScene.resources
    /\ call' = Called("Clear", NULL)
    /\ callLog' = ClearCalls(m_gameObjects)
    /\ UNCHANGED <<held, engine, nextId, pc, rm, files, saved, edits>>

\* ---------------------------------------------------------------- load
\* mutant: the three tests are made in the opposite order
LoadCalls_ImageFirst(resourcePaths) ==
    LET kind(r) == IF IsSupportedImageFile(r) THEN "Load<Texture>"
                   ELSE IF IsSupportedMaterialFile(r) THEN "Load<Material>"
                   ELSE IF IsSupportedMeshFile(r) THEN "Load<Mesh>"
                   ELSE "skip"
        loads == [i \in 1..Len(resourcePaths) |-> <<kind(resourcePaths[i]), resourcePaths[i]>>]
    IN SelectSeq(loads, LAMBDA c : c[1] # "skip")

\* the resources LoadFromFile loads of the paths read from the file: a mesh,
\* a material or an image, a path of no such kind being skipped
LoadCalls(resourcePaths) ==
    LET kind(r) == IF IsSupportedMeshFile(r) THEN "Load<Mesh>"
                   ELSE IF IsSupportedMaterialFile(r) THEN "Load<Material>"
                   ELSE IF IsSupportedImageFile(r) THEN "Load<Texture>"
                   ELSE "skip"
        loads == [i \in 1..Len(resourcePaths) |-> <<kind(resourcePaths[i]), resourcePaths[i]>>]
    IN SelectSeq(loads, LAMBDA c : c[1] # "skip")

RECURSIVE DeserializeRoots_OneShort(_, _, _, _, _, _)
\* mutant: the loop stops one entry before rootGameObjectCount
DeserializeRoots_OneShort(os, gos, data, pos, i, count) ==
    IF i >= count THEN [objs |-> os, gameObjects |-> gos, pos |-> pos]
    ELSE LET r == Deserialize(os, gos, data, pos, gos[i], NULL)
         IN DeserializeRoots_OneShort(r.objs, r.gameObjects, data, r.pos, i + 1, count)

RECURSIVE DeserializeRoots(_, _, _, _, _, _)
\* the loop over the first count entries of the registry
DeserializeRoots(os, gos, data, pos, i, count) ==
    IF i > count THEN [objs |-> os, gameObjects |-> gos, pos |-> pos]
    ELSE LET r == Deserialize(os, gos, data, pos, gos[i], NULL)
         IN DeserializeRoots(r.objs, r.gameObjects, data, r.pos, i + 1, count)

\* mutant: Clear is called before the file is looked for
LoadFromFileNotFound_ClearsFirst(path) ==
    /\ pc = "idle"
    /\ ~FileExists(path)
    /\ objs' = ClearedScene.objs
    /\ m_gameObjects' = ClearedScene.gameObjects
    /\ SetCaches(ClearedScene.caches)
    /\ m_resources' = ClearedScene.resources
    /\ call' = [Called("LoadFromFile", path) EXCEPT !.ret = FALSE]
    /\ callLog' = ClearCalls(m_gameObjects)
                   \o <<<<"FileExists", FALSE>>, <<"LOG_ERROR", NULL>>>>
    /\ UNCHANGED <<held, engine, nextId, pc, rm, files, saved, edits>>

\* Scene::LoadFromFile(path) when the file does not exist
LoadFromFileNotFound(path) ==
    /\ pc = "idle"
    /\ ~FileExists(path)
    /\ call' = [Called("LoadFromFile", path) EXCEPT !.ret = FALSE]
    /\ callLog' = <<<<"FileExists", FALSE>>, <<"LOG_ERROR", NULL>>>>
    /\ UNCHANGED <<held, engine, objs, nextId, m_gameObjects, caches, pc, rm, io, edits>>

\* Scene::LoadFromFile of an existing file from the Clear on: what it
\* leaves of the cleared scene and what it does, in order; opens tells how
\* many of the two Serializer::StartReading calls manage to open the file
\* before one fails (2: none fails)
LoadedScene(path, opens) ==
    LET data      == files[path].data
        paths     == ReadVectorSTR(data, 1)
        loads     == LoadCalls(paths.value)
        firstPass == <<<<"StartReading", TRUE>>, <<"ReadVectorSTR", NULL>>,
                       <<"StopReading", NULL>>>> \o loads
        count     == data[paths.pos][2]
        ids       == [i \in 1..count |-> data[paths.pos + i][2]]
        roots     == NewGameObjects(ClearedScene.objs, ClearedScene.gameObjects, ids)
        r         == DeserializeRoots(roots.objs, roots.gameObjects, data,
                                      paths.pos + count + 1, 1, count)
    IN IF opens = 0
       THEN [objs |-> ClearedScene.objs, gameObjects |-> ClearedScene.gameObjects,
             caches |-> ClearedScene.caches, resources |-> ClearedScene.resources,
             log |-> <<<<"StartReading", FALSE>>>>, ret |-> FALSE]
       ELSE IF opens = 1
       THEN [objs |-> ClearedScene.objs, gameObjects |-> ClearedScene.gameObjects,
             caches |-> ClearedScene.caches,
             resources |-> [i \in 1..Len(loads) |-> loads[i][2]],
             log |-> firstPass \o <<<<"StartReading", FALSE>>>>, ret |-> FALSE]
       ELSE [objs |-> r.objs, gameObjects |-> r.gameObjects,
             caches |-> Resolve(r.objs, r.gameObjects),
             resources |-> [i \in 1..Len(loads) |-> loads[i][2]],
             log |-> firstPass
                     \o <<<<"StartReading", TRUE>>, <<"ReadVectorSTR", NULL>>,
                          <<"ReadInt", count>>>>
                     \o [i \in 1..count |-> <<"new", ids[i]>>]
                     \o [i \in 1..count |-> <<"Deserialize", i>>]
                     \o <<<<"StopReading", NULL>>, <<"Resolve", NULL>>>>,
             ret |-> TRUE]

\* Scene::LoadFromFile(path) of an existing file
LoadFromFile(path, opens) ==
    /\ pc = "idle"
    /\ FileExists(path)
    /\ LET l == LoadedScene(path, opens)
       IN /\ objs' = l.objs
          /\ m_gameObjects' = l.gameObjects
          /\ SetCaches(l.caches)
          /\ m_resources' = l.resources
          /\ callLog' = <<<<"FileExists", TRUE>>>> \o ClearCalls(m_gameObjects) \o l.log
          /\ call' = [Called("LoadFromFile", path) EXCEPT !.ret = l.ret]
    /\ UNCHANGED <<held, engine, nextId, pc, rm, files, saved, edits>>

\* the editor loads a resource into the ResourceManager
LoadResource(r) ==
    /\ CanEdit
    /\ Edited
    /\ Len(m_resources) < MaxResources
    /\ r \notin Range(m_resources)
    /\ m_resources' = Append(m_resources, r)
    /\ call' = Called("LoadResource", NULL)
    /\ callLog' = <<>>
    /\ UNCHANGED <<held, engine, objs, nextId, m_gameObjects, caches, pc, rm, files, saved>>

Next ==
    \/ CreateGameObject
    \/ CreateSkybox
    \/ CreateCamera
    \/ CreateDirectionalLight
    \/ \E g \in Addr, t \in AttachableTypes, lt \in LightTypes : AddComponent(g, t, lt)
    \/ \E c \in Addr, p \in Addr \cup {NULL} : SetParent(c, p)
    \/ ResolveTick
    \/ RemoveGameObjectNull
    \/ \E g \in Addr : RemoveGameObjectBegin(g)
    \/ RemoveDescendant
    \/ RemoveSelf
    \/ RemoveRelink

Spec == Init /\ [][Next]_vars

\* the scene is built, saved, cleared and loaded
NextIO ==
    \/ CreateGameObject
    \/ CreateCamera
    \/ CreateDirectionalLight
    \/ \E g \in Addr, t \in MeshTypes : AddComponent(g, t, DefaultLightType)
    \/ \E c \in Addr, p \in Addr \cup {NULL} : SetParent(c, p)
    \/ \E r \in EditorResources : LoadResource(r)
    \/ \E path \in ScenePaths, opened \in BOOLEAN : SaveToFile(path, opened)
    \/ Clear
    \/ \E path \in ScenePaths : LoadFromFileNotFound(path)
    \/ \E path \in ScenePaths, opens \in 0..2 : LoadFromFile(path, opens)

SpecIO == Init /\ [][NextIO]_vars

\* ---------------------------------------------------------------- lookup
\* mutant: the scan goes on after a match, the last match is returned
FirstWithName_Last(os, gos, name, i) ==
    LET S == {k \in i..Len(gos) : os[gos[k]].name = name}
    IN IF S = {} THEN 0 ELSE CHOOSE k \in S : \A j \in S : j <= k

\* index of the first GameObject of gos whose name is name, 0 if none
RECURSIVE FirstWithName(_, _, _, _)
FirstWithName(os, gos, name, i) ==
    IF i > Len(gos) THEN 0
    ELSE IF os[gos[i]].name = name THEN i
    ELSE FirstWithName(os, gos, name, i + 1)

\* the GameObject a scan returns: the one at index i, nullptr for no index
Found(gos, i) == IF i = 0 THEN NULL ELSE gos[i]

\* the identifiers and the names callers look for: those the scene may hold
\* and one it never holds
QueryIds == 1..(MaxObjects + 1)
QueryNames == Names \cup {"Nobody"}

\* Scene::GetGameObjectByName(name)
GetGameObjectByName(name) ==
    /\ pc = "idle"
    /\ call' = [Called("GetGameObjectByName", name) EXCEPT
                   !.ret = Found(m_gameObjects, FirstWithName(objs, m_gameObjects, name, 1))]
    /\ callLog' = <<>>
    /\ UNCHANGED <<held, engine, objs, nextId, m_gameObjects, caches, pc, rm, io, edits>>

\* Scene::GetGameObjectByID(ID)
GetGameObjectByID(id) ==
    /\ pc = "idle"
    /\ call' = [Called("GetGameObjectByID", id) EXCEPT
                   !.ret = Found(m_gameObjects, FirstWithID(objs, m_gameObjects, id, 1))]
    /\ callLog' = <<>>
    /\ UNCHANGED <<held, engine, objs, nextId, m_gameObjects, caches, pc, rm, io, edits>>

\* a caller keeps the pointer to a GameObject of the scene
Hold(g) ==
    /\ pc = "idle"
    /\ g \in Range(m_gameObjects)
    /\ held # [addr |-> g, id |-> objs[g].id]
    /\ held' = [addr |-> g, id |-> objs[g].id]
    /\ call' = Called("Hold", g)
    /\ callLog' = <<>>
    /\ UNCHANGED <<engine, objs, nextId, m_gameObjects, caches, pc, rm, io, edits>>

\* the identifiers a read of a destroyed GameObject may give: any
\* identifier, or one no GameObject has
GarbageIds == 0..MaxObjects

\* Scene::GameObjectExists(gameObject) called with the pointer kept.  When
\* the GameObject was destroyed, gameObject->GetID() reads freed memory: it
\* gives the identifier of the GameObject now at that address if there is
\* one, any value otherwise.
GameObjectExists(garbage) ==
    /\ pc = "idle"
    /\ held.addr \in DOMAIN objs \cup {NULL} => garbage = 0
    /\ LET g   == held.addr
           id  == IF g \in DOMAIN objs THEN objs[g].id ELSE garbage
           ret == IF g = NULL THEN FALSE
                  ELSE Found(m_gameObjects, FirstWithID(objs, m_gameObjects, id, 1)) # NULL
       IN call' = [Called("GameObjectExists", g) EXCEPT !.ret = ret]
    /\ callLog' = <<>>
    /\ UNCHANGED <<held, engine, objs, nextId, m_gameObjects, caches, pc, rm, io, edits>>

\* GameObjects are created and removed, and looked up in between
NextQuery ==
    \/ CreateGameObject
    \/ CreateCamera
    \/ \E g \in Addr : Hold(g)
    \/ \E g \in Addr : RemoveGameObjectBegin(g)
    \/ RemoveSelf
    \/ \E name \in QueryNames : GetGameObjectByName(name)
    \/ \E id \in QueryIds : GetGameObjectByID(id)
    \/ \E garbage \in GarbageIds : GameObjectExists(garbage)

SpecQuery == Init /\ [][NextQuery]_vars

\* ---------------------------------------------------------------- picking
\* renderables the editor makes by attaching both mesh components
MaxRenderables == 2

\* the editor attaches a MeshFilter and a MeshRenderer to a GameObject of
\* the scene; each attach resolves the scene
AttachMesh(g) ==
    /\ CanEdit
    /\ Edited
    /\ g \in Range(m_gameObjects)
    /\ MeshTypes \cap objs[g].comps = {}
    /\ Len(m_renderables) < MaxRenderables
    /\ objs' = [objs EXCEPT ![g].comps = @ \cup MeshTypes]
    /\ SetCaches(Resolve(objs', m_gameObjects))
    /\ call' = Called("AttachMesh", g)
    /\ callLog' = AddComponentCalls(<<"MeshFilter", "MeshRenderer">>)
    /\ UNCHANGED <<held, engine, nextId, m_gameObjects, pc, rm, io>>

\* world-space vectors: the positions of the renderables' Transforms
Points == {<<0, 0, -5>>, <<0, 3, 0>>, <<0, 0, 2000>>}
\* the origins of rays: of the pick ray and of the camera's (its position)
RayOrigins == {<<0, 0, -5>>, <<0, 3, 0>>}
\* directions of rays
Directions == {<<0, 0, 1>>}
\* bounding boxes of meshes
Extents == {<<1, 1, 1>>, <<0, -4, 2>>}

Abs(x) == IF x < 0 THEN -x ELSE x
Max(x, y) == IF x > y THEN x ELSE y
Dot(u, v) == u[1] * v[1] + u[2] * v[2] + u[3] * v[3]

\* the radius MousePick gives the bounding sphere of a mesh
Radius(extent) == Max(Max(Abs(extent[1]), Abs(extent[2])), Abs(extent[3]))

\* Scene::RaySphereIntersect
RaySphereIntersect(rayOrigin, rayDirection, radius) ==
    LET a == Dot(rayDirection, rayDirection)
        b == Dot(rayDirection, rayOrigin) * 2
        c == Dot(rayOrigin, rayOrigin) - radius * radius
        discriminant == b * b - 4 * a * c
    IN IF discriminant < 0 THEN FALSE ELSE TRUE

\* the square of the distance MousePick computes between two positions
\* (distances are compared, and x < y is x * x < y * y for distances)
DistanceSquared(posA, posB) ==
    (posB[1] - posA[1]) * (posB[1] - posA[1])
    + (posB[2] - posA[2]) * (posB[2] - posA[2])
    + (posB[3] - posA[3]) * (posB[3] - posA[3])

\* float minDistance = 1000
MinDistance == 1000

\* the intersection test of MousePick: the renderables it pushes to
\* intersectedGameObjects, in the order of m_renderables
IntersectedGameObjects(p) ==
    SelectSeq(m_renderables,
              LAMBDA g : /\ "Skybox" \notin objs[g].comps
                         /\ RaySphereIntersect(p.rayOrigin, p.rayDirection,
                                               Radius(p.extent[g]))
                         /\ ~RaySphereIntersect(p.cameraPosition, p.cameraForward,
                                                Radius(p.extent[g])))

RECURSIVE ClosestGameObject(_, _, _, _, _)
\* the second loop of MousePick from index i on, with the square of
\* minDistance and clostestGameObject as they are before that iteration
ClosestGameObject(p, intersected, i, minSquared, closest) ==
    IF i > Len(intersected) THEN closest
    ELSE LET d == DistanceSquared(p.position[intersected[i]], p.cameraPosition)
         IN IF d < minSquared
            THEN ClosestGameObject(p, intersected, i + 1, d, intersected[i])
            ELSE ClosestGameObject(p, intersected, i + 1, minSquared, closest)

\* the position of g in m_renderables
RenderableIndex(g) == CHOOSE i \in 1..Len(m_renderables) : m_renderables[i] = g

\* what a MousePick call works on: the ray unprojected from the mouse
\* position, the position and the forward vector of the main camera's
\* Transform, and the bounding box and the position of every renderable
\* (extent[i] and position[i] are those of the i-th renderable)
PickInputs(rayOrigin, rayDirection, cameraPosition, cameraForward, extent, position) ==
    [rayOrigin |-> rayOrigin, rayDirection |-> rayDirection,
     cameraPosition |-> cameraPosition, cameraForward |-> cameraForward,
     extent |-> [g \in Range(m_renderables) |-> extent[RenderableIndex(g)]],
     position |-> [g \in Range(m_renderables) |-> position[RenderableIndex(g)]]]

\* Scene::MousePick on a scene with a main camera
MousePick(rayOrigin, rayDirection, cameraPosition, cameraForward, extent, position) ==
    /\ pc = "idle"
    /\ m_mainCamera # NULL
    /\ \A i \in (Len(m_renderables) + 1)..MaxRenderables :
          extent[i] = extent[1] /\ position[i] = position[1]
    /\ LET p == PickInputs(rayOrigin, rayDirection, cameraPosition, cameraForward,
                           extent, position)
           intersected == IntersectedGameObjects(p)
       IN /\ call' = [Called("MousePick", p) EXCEPT
                        !.ret = ClosestGameObject(p, intersected, 1,
                                                  MinDistance * MinDistance, NULL)]
          /\ callLog' = [i \in 1..Len(intersected) |-> <<"push_back", intersected[i]>>]
    /\ UNCHANGED <<held, engine, objs, nextId, m_gameObjects, caches, pc, rm, io, edits>>

\* a scene with a camera, a skybox and meshes is built and picked in
NextPick ==
    \/ CreateGameObject
    \/ CreateCamera
    \/ CreateSkybox
    \/ \E g \in Addr : AttachMesh(g)
    \/ \E rayOrigin \in RayOrigins, rayDirection \in Directions,
          cameraPosition \in RayOrigins, cameraForward \in Directions,
          extent \in [1..MaxRenderables -> Extents],
          position \in [1..MaxRenderables -> Points] :
          MousePick(rayOrigin, rayDirection, cameraPosition, cameraForward,
                    extent, position)

SpecPick == Init /\ [][NextPick]_vars

\* ---------------------------------------------------------------- ticks
\* the subscriptions Scene::Initialize makes
Subscriptions == {<<"EVENT_UPDATE", "Scene::Resolve">>, <<"EVENT_RENDER", "Scene::Update">>}

\* mutant: the handlers are not subscribed
Initialize_NotSubscribed ==
    /\ pc = "idle"
    /\ handlers = {}
    /\ nextId + 2 <= MaxObjects
    /\ LET camera == CreatedIn(objs, m_gameObjects, nextId,
                               "Camera", <<"Camera", "Script">>, DefaultLightType)
           skybox == CreatedIn(camera.objs, camera.gameObjects, nextId + 1,
                               "Skybox", <<"LineRenderer", "Skybox">>, DefaultLightType)
           light  == CreatedIn(skybox.objs, skybox.gameObjects, nextId + 2,
                               "DirectionalLight", <<"Light">>, "Directional")
       IN /\ objs' = light.objs
          /\ m_gameObjects' = light.gameObjects
          /\ SetCaches(Resolve(light.objs, light.gameObjects))
          /\ callLog' = camera.log \o skybox.log \o light.log \o <<<<"Resolve", NULL>>>>
    /\ nextId' = nextId + 3
    /\ call' = Called("Initialize", NULL)
    /\ UNCHANGED <<held, pool, handlers, tasks, worker, pc, rm, io, edits>>

\* Scene::Initialize, called once on the constructed scene: the camera, the
\* skybox and the directional light are created, the scene is resolved and
\* the two handlers are subscribed
Initialize ==
    /\ pc = "idle"
    /\ handlers = {}
    /\ nextId + 2 <= MaxObjects
    /\ LET camera == CreatedIn(objs, m_gameObjects, nextId,
                               "Camera", <<"Camera", "Script">>, DefaultLightType)
           skybox == CreatedIn(camera.objs, camera.gameObjects, nextId + 1,
                               "Skybox", <<"LineRenderer", "Skybox">>, DefaultLightType)
           light  == CreatedIn(skybox.objs, skybox.gameObjects, nextId + 2,
                               "DirectionalLight", <<"Light">>, "Directional")
       IN /\ objs' = light.objs
          /\ m_gameObjects' = light.gameObjects
          /\ SetCaches(Resolve(light.objs, light.gameObjects))
          /\ callLog' = camera.log \o skybox.log \o light.log \o <<<<"Resolve", NULL>>>>
    /\ nextId' = nextId + 3
    /\ handlers' = Subscriptions
    /\ call' = Called("Initialize", NULL)
    /\ UNCHANGED <<held, pool, tasks, worker, pc, rm, io, edits>>

\* the GameObjects of the registry that are destroyed
Destroyed == {g \in Range(m_gameObjects) : g \notin DOMAIN objs}

\* what a read of the components of a destroyed GameObject may find: the
\* memory is freed and anything may be in it (undefined behaviour)
FreedComponents == {{}, {"Camera", "MeshFilter", "MeshRenderer"}}

\* the heap as a Resolve reads it, freed[g] being what it finds of the
\* destroyed GameObject g
HeapAsRead(freed) ==
    [g \in DOMAIN objs \cup Destroyed |->
        IF g \in DOMAIN objs THEN objs[g]
        ELSE [NewGameObject(0) EXCEPT !.comps = freed[g]]]

\* EVENT_UPDATE is fired on the main thread: the subscribed Scene::Resolve
\* runs once; the uses of destroyed GameObjects of the registry are logged
FireUpdate(freed) ==
    /\ pc = "idle"
    /\ <<"EVENT_UPDATE", "Scene::Resolve">> \in handlers
    /\ \A g \in Addr \ Destroyed : freed[g] = {}
    /\ SetCaches(Resolve(HeapAsRead(freed), m_gameObjects))
    /\ call' = Called("Resolve", IF call.op = "Resolve" THEN 2 ELSE 1)
    /\ callLog' = <<<<"Resolve", NULL, TRUE>>>>
                   \o [i \in 1..Len(m_gameObjects) |->
                          <<"HasComponent", m_gameObjects[i],
                            m_gameObjects[i] \in DOMAIN objs>>]
    /\ UNCHANGED <<held, engine, objs, nextId, m_gameObjects, pc, rm, io, edits>>

\* EVENT_RENDER is fired on the main thread: the subscribed Scene::Update
\* calls GameObject::Update on each GameObject of the registry (the frame
\* count of CalculateFPS is not part of the scene); the log tells of each
\* whether it is alive, and of each cache entry the renderer then draws
\* from whether it is in the registry
FireRender ==
    /\ pc = "idle"
    /\ <<"EVENT_RENDER", "Scene::Update">> \in handlers
    /\ call' = Called("Update", NULL)
    /\ callLog' = [i \in 1..Len(m_gameObjects) |->
                      <<"Update", m_gameObjects[i], m_gameObjects[i] \in DOMAIN objs>>]
                  \o <<<<"CalculateFPS", NULL, TRUE>>>>
                  \o [i \in 1..Len(m_renderables) |->
                      <<"cached", m_renderables[i], m_renderables[i] \in Range(m_gameObjects)>>]
                  \o [i \in 1..Len(m_lightsDirectional) |->
                      <<"cached", m_lightsDirectional[i],
                        m_lightsDirectional[i] \in Range(m_gameObjects)>>]
                  \o (IF m_mainCamera = NULL THEN <<>>
                      ELSE <<<<"cached", m_mainCamera, m_mainCamera \in Range(m_gameObjects)>>>>)
    /\ UNCHANGED <<held, engine, objs, nextId, m_gameObjects, caches, pc, rm, io, edits>>

\* the frames of an initialized scene that the editor changes
NextTick ==
    \/ Initialize
    \/ \E g \in Addr, t \in AttachableTypes, lt \in LightTypes : AddComponent(g, t, lt)
    \/ \E c \in Addr, p \in Addr \cup {NULL} : SetParent(c, p)
    \/ \E g \in Addr : RemoveGameObjectBegin(g)
    \/ RemoveDescendant
    \/ RemoveSelf
    \/ RemoveRelink
    \/ \E freed \in [Addr -> FreedComponents] : FireUpdate(freed)
    \/ FireRender

\* the engine fires EVENT_UPDATE in every frame, and a RemoveGameObject call
\* that was entered runs to its end
SpecTick ==
    /\ Init
    /\ [][NextTick]_vars
    /\ WF_vars(\E freed \in [Addr -> FreedComponents] : FireUpdate(freed))
    /\ WF_vars(RemoveDescendant \/ RemoveSelf \/ RemoveRelink)

\* ---------------------------------------------------------------- single removal
\* new GameObject(context) by a caller that does not give it to the scene
ConstructGameObject ==
    /\ pc = "idle"
    /\ nextId <= MaxObjects
    /\ objs' = Alloc(objs, NewAddr(objs), NewGameObject(nextId))
    /\ nextId' = nextId + 1
    /\ call' = Called("GameObject", NewAddr(objs))
    /\ callLog' = <<>>
    /\ UNCHANGED <<held, engine, m_gameObjects, caches, pc, rm, io, edits>>

\* Scene::RemoveSingleGameObject(g) called on its own, with a null pointer
\* or with a live GameObject, of the registry or not
RemoveSingleGameObjectCall(g) ==
    /\ pc = "idle"
    /\ g \in DOMAIN objs \cup {NULL}
    /\ call' = Entered("RemoveSingleGameObject", g)
    /\ IF g = NULL
       THEN /\ callLog' = <<>>
            /\ UNCHANGED <<objs, m_gameObjects, caches>>
       ELSE LET r == RemoveSingleGameObject(objs, m_gameObjects, Caches, <<>>, g)
            IN /\ objs' = r.objs
               /\ m_gameObjects' = r.gameObjects
               /\ SetCaches(r.caches)
               /\ callLog' = r.log
    /\ UNCHANGED <<held, engine, nextId, pc, rm, io, edits>>

NextSingle ==
    \/ CreateGameObject
    \/ CreateCamera
    \/ \E g \in Addr, lt \in LightTypes : AddComponent(g, "Light", lt)
    \/ ConstructGameObject
    \/ \E g \in Addr \cup {NULL} : RemoveSingleGameObjectCall(g)

SpecSingle == Init /\ [][NextSingle]_vars

\* ---------------------------------------------------------------- cache references
\* GameObjects are created and removed, the scene is resolved, saved,
\* cleared and loaded, all from one thread
NextCaches ==
    \/ CreateGameObject
    \/ CreateSkybox
    \/ CreateCamera
    \/ CreateDirectionalLight
    \/ \E g \in Addr, t \in MeshTypes : AddComponent(g, t, DefaultLightType)
    \/ \E c \in Addr, p \in Addr \cup {NULL} : SetParent(c, p)
    \/ ResolveTick
    \/ RemoveGameObjectNull
    \/ \E g \in Addr : RemoveGameObjectBegin(g)
    \/ RemoveDescendant
    \/ RemoveSelf
    \/ RemoveRelink
    \/ \E path \in ScenePaths, opened \in BOOLEAN : SaveToFile(path, opened)
    \/ Clear
    \/ \E path \in ScenePaths : LoadFromFileNotFound(path)
    \/ \E path \in ScenePaths, opens \in 0..2 : LoadFromFile(path, opens)

SpecCaches == Init /\ [][NextCaches]_vars

\* ---------------------------------------------------------------- streams
\* a scene with a camera, a light, a hierarchy and a resource is saved,
\* cleared and loaded
NextStreams ==
    \/ CreateCamera
    \/ CreateDirectionalLight
    \/ \E c \in Addr, p \in Addr \cup {NULL} : SetParent(c, p)
    \/ \E r \in EditorResources : LoadResource(r)
    \/ \E path \in ScenePaths, opened \in BOOLEAN : SaveToFile(path, opened)
    \/ Clear
    \/ \E path \in ScenePaths : LoadFromFileNotFound(path)
    \/ \E path \in ScenePaths, opens \in 0..2 : LoadFromFile(path, opens)

SpecStreams == Init /\ [][NextStreams]_vars

\* ---------------------------------------------------------------- lights
\* GameObjects are created and given meshes and lights of any type, and
\* the scene is resolved
NextLights ==
    \/ CreateGameObject
    \/ \E g \in Addr, t \in MeshTypes \cup {"Light"},
          lt \in LightTypes \cup OtherLightTypes : AddComponent(g, t, lt)
    \/ ResolveTick

SpecLights == Init /\ [][NextLights]_vars

\* ---------------------------------------------------------------- stored scenes
\* the sequences without repetition of at most n elements of S
DistinctSeqs(S, n) ==
    {q \in UNION {[1..k -> S] : k \in 0..n} :
        \A i, j \in 1..Len(q) : i # j => q[i] # q[j]}

\* the scene an earlier run saved: one GameObject, created by CreateGameObject
StoredObjs == Alloc(<<>>, 1, NewGameObject(1))
StoredGameObjects == <<1>>
\* the file SaveToFile wrote of that scene with the resources paths loaded
StoredFile(paths) ==
    [exists |-> TRUE,
     data |-> Written(SaveCalls(StoredObjs, StoredGameObjects, paths))]

\* the scene is constructed in a run that finds the scene file of an
\* earlier run, written when some resources were loaded
InitStoredOf(stored) ==
    /\ objs = <<>>
    /\ nextId = 1
    /\ m_gameObjects = <<>>
    /\ m_mainCamera = NULL
    /\ m_skybox = NULL
    /\ m_renderables = <<>>
    /\ m_lightsDirectional = <<>>
    /\ m_lightsPoint = <<>>
    /\ pc = "idle"
    /\ rm = NoRm
    /\ call = NoCall
    /\ callLog = <<>>
    /\ \E paths \in stored :
          files = [path \in ScenePaths |->
                      IF path = WithSceneExtension(path) THEN StoredFile(paths) ELSE NoFile]
    /\ m_resources = <<>>
    /\ saved = SceneById(StoredObjs, StoredGameObjects)
    /\ edits = 0
    /\ held = NoHeld
    /\ handlers = {}
    /\ tasks = <<>>
    /\ worker = NoWork
    /\ pool = NoPool

InitStored == InitStoredOf(DistinctSeqs(ResourcePaths, MaxStoredPaths))

\* the stored scene is loaded, cleared and loaded again
NextStored ==
    \/ Clear
    \/ \E path \in ScenePaths : LoadFromFileNotFound(path)
    \/ \E path \in ScenePaths, opens \in 0..2 : LoadFromFile(path, opens)

SpecStored == InitStored /\ [][NextStored]_vars

\* ---------------------------------------------------------------- async
\* the tasks given to Multithreading::AddTask so far, in the order given:
\* those run, the one the worker is running, those waiting
AllTasks ==
    [i \in 1..Len(worker.ran) |-> <<worker.ran[i][1], worker.ran[i][2]>>]
    \o (IF worker.task = <<>> THEN <<>> ELSE <<worker.task>>)
    \o tasks

\* Multithreading::AddTask: the task is put at the end of the queue
AddTask(task) == tasks' = Append(tasks, task)

\* mutant: the save is made by the caller, no task is queued
SaveToFileAsync_Inline(path) ==
    /\ pc = "idle"
    /\ Len(AllTasks) < MaxTasks
    /\ files' = [files EXCEPT ![WithSceneExtension(path)] =
                    [exists |-> TRUE,
                     data |-> Written(SaveCalls(objs, m_gameObjects, m_resources))]]
    /\ saved' = SceneById(objs, m_gameObjects)
    /\ call' = Called("SaveToFileAsync", path)
    /\ callLog' = <<>>
    /\ UNCHANGED <<held, engine, objs, nextId, m_gameObjects, caches, pc, rm,
                   m_resources, edits>>

\* Scene::SaveToFileAsync(filePath)
SaveToFileAsync(path) ==
    /\ pc = "idle"
    /\ Len(AllTasks) < MaxTasks
    /\ AddTask(<<"SaveToFile", path>>)
    /\ call' = Called("SaveToFileAsync", path)
    /\ callLog' = <<<<"AddTask", <<"SaveToFile", path>>>>>>
    /\ UNCHANGED <<held, pool, handlers, worker, objs, nextId, m_gameObjects, caches,
                   pc, rm, io, edits>>

\* Scene::LoadFromFileAsync(filePath)
LoadFromFileAsync(path) ==
    /\ pc = "idle"
    /\ Len(AllTasks) < MaxTasks
    /\ AddTask(<<"LoadFromFile", path>>)
    /\ call' = Called("LoadFromFileAsync", path)
    /\ callLog' = <<<<"AddTask", <<"LoadFromFile", path>>>>>>
    /\ UNCHANGED <<held, pool, handlers, worker, objs, nextId, m_gameObjects, caches,
                   pc, rm, io, edits>>

\* the worker thread takes the task at the head of the queue
WorkerTake ==
    /\ worker.pc = "wait"
    /\ tasks # <<>>
    /\ worker' = [worker EXCEPT !.pc = "run", !.task = Head(tasks)]
    /\ tasks' = Tail(tasks)
    /\ UNCHANGED <<held, pool, handlers, objs, nextId, m_gameObjects, caches, pc, rm,
                   call, callLog, io, edits>>

\* the worker is done with its task, which returned ret
WorkerDone(ret) ==
    worker' = [pc |-> "wait", task |-> <<>>, i |-> 0,
               ran |-> Append(worker.ran, <<worker.task[1], worker.task[2], ret>>)]

\* the worker runs Scene::SaveToFile(path)
WorkerSaveToFile(opened) ==
    /\ worker.pc = "run"
    /\ worker.task[1] = "SaveToFile"
    /\ LET filePath == WithSceneExtension(worker.task[2])
           calls == SaveCalls(objs, m_gameObjects, m_resources)
       IN IF ~opened
          THEN UNCHANGED <<files, saved>>
          ELSE /\ files' = [files EXCEPT ![filePath] =
                               [exists |-> TRUE, data |-> Written(calls)]]
               /\ saved' = SceneById(objs, m_gameObjects)
    /\ WorkerDone(opened)
    /\ UNCHANGED <<held, pool, handlers, tasks, objs, nextId, m_gameObjects, caches,
                   pc, rm, call, callLog, m_resources, edits>>

\* the worker runs Scene::LoadFromFile(path) and the file does not exist
WorkerLoadNotFound ==
    /\ worker.pc = "run"
    /\ worker.task[1] = "LoadFromFile"
    /\ ~FileExists(worker.task[2])
    /\ WorkerDone(FALSE)
    /\ UNCHANGED <<held, pool, handlers, tasks, objs, nextId, m_gameObjects, caches,
                   pc, rm, call, callLog, io, edits>>

\* the worker runs Scene::LoadFromFile(path), the file exists: Clear is entered
WorkerLoadFound ==
    /\ worker.pc = "run"
    /\ worker.task[1] = "LoadFromFile"
    /\ FileExists(worker.task[2])
    /\ worker' = [worker EXCEPT !.pc = "delete", !.i = 1]
    /\ UNCHANGED <<held, pool, handlers, tasks, objs, nextId, m_gameObjects, caches,
                   pc, rm, call, callLog, io, edits>>

\* Scene::Clear on the worker, one iteration of its loop: delete gameObject
WorkerDelete ==
    /\ worker.pc = "delete"
    /\ worker.i <= Len(m_gameObjects)
    /\ objs' = Free(objs, m_gameObjects[worker.i])
    /\ worker' = [worker EXCEPT !.i = @ + 1]
    /\ UNCHANGED <<held, pool, handlers, tasks, nextId, m_gameObjects, caches,
                   pc, rm, call, callLog, io, edits>>

\* Scene::Clear on the worker, after the loop: m_gameObjects.clear()
WorkerClearRegistry ==
    /\ worker.pc = "delete"
    /\ worker.i > Len(m_gameObjects)
    /\ m_gameObjects' = <<>>
    /\ worker' = [worker EXCEPT !.pc = "clear", !.i = 0]
    /\ UNCHANGED <<held, pool, handlers, tasks, objs, nextId, caches,
                   pc, rm, call, callLog, io, edits>>

\* Scene::Clear on the worker, the rest: the caches are cleared and reset,
\* the resource cache is unloaded
WorkerClearCaches ==
    /\ worker.pc = "clear"
    /\ SetCaches(EmptyCaches)
    /\ m_resources' = <<>>
    /\ worker' = [worker EXCEPT !.pc = "read"]
    /\ UNCHANGED <<held, pool, handlers, tasks, objs, nextId, m_gameObjects,
                   pc, rm, call, callLog, files, saved, edits>>

\* Scene::LoadFromFile on the worker, after Clear: the file is read
WorkerRead(opens) ==
    /\ worker.pc = "read"
    /\ LET l == LoadedScene(worker.task[2], opens)
       IN /\ objs' = l.objs
          /\ m_gameObjects' = l.gameObjects
          /\ SetCaches(l.caches)
          /\ m_resources' = l.resources
          /\ WorkerDone(l.ret)
    /\ UNCHANGED <<held, pool, handlers, tasks, nextId, pc, rm, call, callLog,
                   files, saved, edits>>

\* a step of the worker thread
WorkerStep ==
    \/ WorkerTake
    \/ \E opened \in BOOLEAN : WorkerSaveToFile(opened)
    \/ WorkerLoadNotFound
    \/ WorkerLoadFound
    \/ WorkerDelete
    \/ WorkerClearRegistry
    \/ WorkerClearCaches
    \/ \E opens \in 0..2 : WorkerRead(opens)

\* the frames of an initialized scene whose caller saves and loads it
\* asynchronously
NextAsync ==
    \/ Initialize
    \/ \E path \in ScenePaths : SaveToFileAsync(path)
    \/ \E path \in ScenePaths : LoadFromFileAsync(path)
    \/ \E freed \in [Addr -> FreedComponents] : FireUpdate(freed)
    \/ FireRender
    \/ WorkerTake
    \/ \E opened \in BOOLEAN : WorkerSaveToFile(opened)
    \/ WorkerLoadNotFound
    \/ WorkerLoadFound
    \/ WorkerDelete
    \/ WorkerClearRegistry
    \/ WorkerClearCaches
    \/ \E opens \in 0..2 : WorkerRead(opens)

\* the worker thread runs whenever it has something to do
SpecAsync == Init /\ [][NextAsync]_vars /\ WF_vars(WorkerStep)

\* ================================================================ claims
\* the caches a classification of the registry from scratch gives: the last
\* GameObject with a Camera, the last with a Skybox, and the GameObjects
\* with both mesh components, with a directional light, with a point light
HasCamera(os, g) == "Camera" \in os[g].comps
HasSkybox(os, g) == "Skybox" \in os[g].comps
IsRenderable(os, g) == {"MeshFilter", "MeshRenderer"} \subseteq os[g].comps
IsLight(os, g, lt) == "Light" \in os[g].comps /\ os[g].lightType = lt
LastSuchThat(gos, P(_)) ==
    LET I == {i \in 1..Len(gos) : P(gos[i])}
    IN IF I = {} THEN NULL ELSE gos[CHOOSE i \in I : \A j \in I : j <= i]
FromScratch(os, gos) ==
    [mainCamera |-> LastSuchThat(gos, LAMBDA g : HasCamera(os, g)),
     skybox |-> LastSuchThat(gos, LAMBDA g : HasSkybox(os, g)),
     renderables |-> SelectSeq(gos, LAMBDA g : IsRenderable(os, g)),
     lightsDirectional |-> SelectSeq(gos, LAMBDA g : IsLight(os, g, "Directional")),
     lightsPoint |-> SelectSeq(gos, LAMBDA g : IsLight(os, g, "Point"))]

\* a call of op has returned and nothing was called since
Returned(op) == pc = "idle" /\ call.op = op

\* of the RemoveGameObject call recorded in call: the GameObject removed, its
\* subtree, its children and its parent when the call was entered
RmSubtree == {call.arg} \cup {a \in DOMAIN call.parents : AncestorIn(call.parents, call.arg, a)}
RmChildren == {a \in DOMAIN call.parents : call.parents[a] = call.arg}
RmParent == call.parents[call.arg]

\* the caches equal the classification from scratch of the registry
CachesFresh == Caches = FromScratch(objs, m_gameObjects)

\* C1: when CreateGameObject or RemoveGameObject (of a GameObject of the
\* registry) has returned, the five caches equal the classification from
\* scratch of the registry as it is then; RemoveGameObject(nullptr), which
\* resolves nothing, leaves them equal to it if they were.
C1_CachesFreshAfterCreateRemove ==
    /\ []((Returned("CreateGameObject") \/ Returned("RemoveGameObject"))
            => CachesFresh)
    /\ [][(call'.op = "RemoveGameObjectNull" /\ CachesFresh) => CachesFresh']_vars

\* a removal has returned that left a camera and a renderable in the caches
C1_Witness ==
    /\ Returned("RemoveGameObject")
    /\ m_mainCamera # NULL
    /\ m_renderables # <<>>

\* C2: RemoveGameObject(e) removes e and its transitive descendants, N+1
\* GameObjects, and nothing else: the registry is the old one without the
\* subtree of e, in the old order, and exactly those GameObjects are destroyed.
C2_RemovesExactlySubtree ==
    Returned("RemoveGameObject") =>
        /\ m_gameObjects = SelectSeq(call.gameObjects, LAMBDA a : a \notin RmSubtree)
        /\ Len(m_gameObjects) = Len(call.gameObjects) - Cardinality(RmSubtree)
        /\ DOMAIN objs = DOMAIN call.parents \ RmSubtree

\* a GameObject with one descendant was removed and another one stayed
C2_Witness ==
    /\ Returned("RemoveGameObject")
    /\ Cardinality(RmSubtree) = 2
    /\ Len(m_gameObjects) = 1

\* C3 as claimed: after RemoveGameObject(e) the children of e are still in
\* the registry, with the former parent of e as their parent.
C3_ChildrenKeptAndReparented ==
    Returned("RemoveGameObject") =>
        \A c \in RmChildren :
            /\ c \in Range(m_gameObjects)
            /\ c \in DOMAIN objs
            /\ objs[c].parent = RmParent

\* C3 amended: after RemoveGameObject(e) no child of e is left in the
\* registry or alive; no remaining GameObject has changed its parent; and
\* the child set of the former parent of e, if it had one, is that parent's
\* remaining children (e gone from it), all alive.
C3_ChildrenRemovedParentRelinked ==
    Returned("RemoveGameObject") =>
        /\ \A c \in RmChildren : c \notin Range(m_gameObjects) /\ c \notin DOMAIN objs
        /\ \A a \in DOMAIN objs : objs[a].parent = call.parents[a]
        /\ RmParent # NULL =>
              /\ RmParent \in DOMAIN objs
              /\ objs[RmParent].children =
                    SelectSeq(m_gameObjects, LAMBDA a : call.parents[a] = RmParent)
              /\ call.arg \notin Range(objs[RmParent].children)

\* a GameObject with a parent and a child was removed
C3_Witness ==
    /\ Returned("RemoveGameObject")
    /\ RmParent # NULL
    /\ RmChildren # {}

\* positions of the log of the last call
LogIndexes(ev) == {i \in 1..Len(callLog) : callLog[i][1] = ev}

\* C4 as claimed: in RemoveGameObject the caches are resolved as the final
\* step, and no resolution precedes the re-link of the parent's child set.
C4_ResolveLastAfterRelink ==
    (Returned("RemoveGameObject") /\ callLog # <<>>) =>
        /\ callLog[Len(callLog)][1] = "Resolve"
        /\ \A i \in LogIndexes("Resolve"), j \in LogIndexes("ResolveChildrenRecursively") :
              j < i

\* C4 amended: RemoveGameObject removes the descendants one by one, then the
\* GameObject itself, each removal being delete, erase, Resolve; then, if
\* the GameObject had a parent, the parent's child set is re-linked as the
\* final step.  Every resolution precedes the re-link and none follows it.
C4_RemoveOrder ==
    Returned("RemoveGameObject") =>
        LET n == Cardinality(RmSubtree)
            removed(k) == callLog[3 * k - 2][2]
        IN /\ Len(callLog) = 3 * n + (IF RmParent # NULL THEN 1 ELSE 0)
           /\ \A k \in 1..n :
                 /\ callLog[3 * k - 2][1] = "delete"
                 /\ callLog[3 * k - 1] = <<"erase", removed(k)>>
                 /\ callLog[3 * k] = <<"Resolve", NULL>>
           /\ {removed(k) : k \in 1..(n - 1)} = RmSubtree \ {call.arg}
           /\ removed(n) = call.arg
           /\ RmParent # NULL =>
                 callLog[Len(callLog)] = <<"ResolveChildrenRecursively", RmParent>>
           /\ \A i \in LogIndexes("Resolve"), j \in LogIndexes("ResolveChildrenRecursively") :
                 i < j

\* a GameObject with a parent and a descendant was removed
C4_Witness ==
    /\ Returned("RemoveGameObject")
    /\ LogIndexes("ResolveChildrenRecursively") # {}
    /\ Cardinality(LogIndexes("Resolve")) >= 2

\* C5: in a RemoveGameObject call a descendant is destroyed before each of
\* its ancestors, so no live Transform ever has a destroyed Transform as its
\* parent, during the call or after it.
C5_DescendantsDestroyedFirst ==
    /\ call.op = "RemoveGameObject" =>
          \A i, j \in LogIndexes("delete") :
              i < j => ~AncestorIn(call.parents, callLog[i][2], callLog[j][2])
    /\ \A a \in DOMAIN objs : objs[a].parent # NULL => objs[a].parent \in DOMAIN objs

\* ---------------------------------------------------------------- pool of workers
\* the threads that have a stream of the Serializer open
StreamOpen == {t \in Threads : pool[t].pc \in {"writing", "reading", "reading again"}}
\* the tasks the threads of the pool have taken
PoolTaken ==
    LET RECURSIVE Sum(_)
        Sum(S) == IF S = {} THEN 0
                  ELSE LET t == Min(S)
                       IN pool[t].ran + (IF pool[t].task = <<>> THEN 0 ELSE 1) + Sum(S \ {t})
    IN Sum(Threads)

\* thread t takes the task at the head of the queue
PoolTake(t) ==
    /\ pool[t].pc = "wait"
    /\ tasks # <<>>
    /\ PoolTaken < MaxTasks
    /\ pool' = [pool EXCEPT ![t].pc = "run", ![t].task = Head(tasks)]
    /\ tasks' = Tail(tasks)
    /\ UNCHANGED <<held, handlers, worker, objs, nextId, m_gameObjects, caches, pc, rm,
                   call, callLog, io, edits>>

\* thread t is done with its task
PoolDone(t) == pool' = [pool EXCEPT ![t] = [pc |-> "wait", task |-> <<>>, ran |-> @.ran + 1]]

\* Scene::SaveToFile on thread t up to Serializer::StartWriting, which
\* opens the stream or fails
PoolStartWriting(t, opened) ==
    /\ pool[t].pc = "run"
    /\ pool[t].task[1] = "SaveToFile"
    /\ IF opened THEN pool' = [pool EXCEPT ![t].pc = "writing"] ELSE PoolDone(t)
    /\ UNCHANGED <<held, handlers, tasks, worker, objs, nextId, m_gameObjects, caches,
                   pc, rm, call, callLog, io, edits>>

\* Scene::SaveToFile on thread t from the first write to StopWriting
PoolWrite(t) ==
    /\ pool[t].pc = "writing"
    /\ files' = [files EXCEPT ![WithSceneExtension(pool[t].task[2])] =
                    [exists |-> TRUE,
                     data |-> Written(SaveCalls(objs, m_gameObjects, m_resources))]]
    /\ saved' = SceneById(objs, m_gameObjects)
    /\ PoolDone(t)
    /\ UNCHANGED <<held, handlers, tasks, worker, objs, nextId, m_gameObjects, caches,
                   pc, rm, call, callLog, m_resources, edits>>

\* Scene::LoadFromFile on thread t, the file does not exist
PoolLoadNotFound(t) ==
    /\ pool[t].pc = "run"
    /\ pool[t].task[1] = "LoadFromFile"
    /\ ~FileExists(pool[t].task[2])
    /\ PoolDone(t)
    /\ UNCHANGED <<held, handlers, tasks, worker, objs, nextId, m_gameObjects, caches,
                   pc, rm, call, callLog, io, edits>>

\* Scene::LoadFromFile on thread t, the file exists: Clear, then the first
\* Serializer::StartReading, which opens the stream or fails
PoolStartReading(t, opened) ==
    /\ pool[t].pc = "run"
    /\ pool[t].task[1] = "LoadFromFile"
    /\ FileExists(pool[t].task[2])
    /\ objs' = ClearedScene.objs
    /\ m_gameObjects' = ClearedScene.gameObjects
    /\ SetCaches(ClearedScene.caches)
    /\ m_resources' = ClearedScene.resources
    /\ IF opened THEN pool' = [pool EXCEPT ![t].pc = "reading"] ELSE PoolDone(t)
    /\ UNCHANGED <<held, handlers, tasks, worker, nextId, pc, rm, call, callLog,
                   files, saved, edits>>

\* Scene::LoadFromFile on thread t: the resource paths are read, the
\* stream is stopped and the resources are loaded
PoolReadPaths(t) ==
    /\ pool[t].pc = "reading"
    /\ LET loads == LoadCalls(ReadVectorSTR(files[pool[t].task[2]].data, 1).value)
           paths == [i \in 1..Len(loads) |-> loads[i][2]]
       IN m_resources' = m_resources
                         \o SelectSeq(paths, LAMBDA r : r \notin Range(m_resources))
    /\ pool' = [pool EXCEPT ![t].pc = "loaded"]
    /\ UNCHANGED <<held, handlers, tasks, worker, objs, nextId, m_gameObjects, caches,
                   pc, rm, call, callLog, files, saved, edits>>

\* Scene::LoadFromFile on thread t: the second Serializer::StartReading
PoolStartReadingAgain(t, opened) ==
    /\ pool[t].pc = "loaded"
    /\ IF opened THEN pool' = [pool EXCEPT ![t].pc = "reading again"] ELSE PoolDone(t)
    /\ UNCHANGED <<held, handlers, tasks, worker, objs, nextId, m_gameObjects, caches,
                   pc, rm, call, callLog, io, edits>>

\* Scene::LoadFromFile on thread t: the roots are created at the end of the
\* registry as it is, the first rootGameObjectCount entries of the
\* registry are deserialized, the stream is stopped, the scene is resolved
PoolReadScene(t) ==
    /\ pool[t].pc = "reading again"
    /\ LET data  == files[pool[t].task[2]].data
           paths == ReadVectorSTR(data, 1)
           count == data[paths.pos][2]
           ids   == [i \in 1..count |-> data[paths.pos + i][2]]
           roots == NewGameObjects(objs, m_gameObjects, ids)
           r     == DeserializeRoots(roots.objs, roots.gameObjects, data,
                                     paths.pos + count + 1, 1, count)
       IN /\ objs' = r.objs
          /\ m_gameObjects' = r.gameObjects
          /\ SetCaches(Resolve(r.objs, r.gameObjects))
    /\ PoolDone(t)
    /\ UNCHANGED <<held, handlers, tasks, worker, nextId, pc, rm, call, callLog,
                   io, edits>>

\* the scene file of an earlier run exists; the caller queues saves and
\* loads, which the threads of the pool run side by side
InitWorkers == InitStoredOf({<<>>, <<"model.obj">>})

NextWorkers ==
    \/ \E path \in ScenePaths : SaveToFileAsync(path)
    \/ \E path \in ScenePaths : LoadFromFileAsync(path)
    \/ \E t \in Threads : PoolTake(t)
    \/ \E t \in Threads, opened \in BOOLEAN : PoolStartWriting(t, opened)
    \/ \E t \in Threads : PoolWrite(t)
    \/ \E t \in Threads : PoolLoadNotFound(t)
    \/ \E t \in Threads, opened \in BOOLEAN : PoolStartReading(t, opened)
    \/ \E t \in Threads : PoolReadPaths(t)
    \/ \E t \in Threads, opened \in BOOLEAN : PoolStartReadingAgain(t, opened)
    \/ \E t \in Threads : PoolReadScene(t)

SpecWorkers == InitWorkers /\ [][NextWorkers]_vars

\* ---------------------------------------------------------------- picking without a camera
\* Scene::MousePick when m_mainCamera is nullptr: GetMainCamera() is
\* dereferenced untested, which is undefined: the process crashes, or the
\* call goes on with whatever it read and returns a renderable or nothing
MousePickNoCamera(crashes, ret) ==
    /\ pc = "idle"
    /\ m_mainCamera = NULL
    /\ ret \in Range(m_renderables) \cup {NULL}
    /\ crashes => ret = NULL
    /\ pc' = IF crashes THEN "crashed" ELSE pc
    /\ call' = [Called("MousePick", [camera |-> NULL]) EXCEPT !.ret = ret]
    /\ callLog' = <<>>
    /\ UNCHANGED <<held, engine, objs, nextId, m_gameObjects, caches, rm, io, edits>>

\* GameObjects are created, get meshes, are removed, the scene is cleared,
\* saved and loaded, and the editor picks with the mouse
NextCamera ==
    \/ CreateGameObject
    \/ CreateCamera
    \/ \E g \in Addr : AttachMesh(g)
    \/ \E c \in Addr, p \in Addr \cup {NULL} : SetParent(c, p)
    \/ RemoveGameObjectNull
    \/ \E g \in Addr : RemoveGameObjectBegin(g)
    \/ RemoveDescendant
    \/ RemoveSelf
    \/ RemoveRelink
    \/ \E path \in ScenePaths, opened \in BOOLEAN : SaveToFile(path, opened)
    \/ Clear
    \/ \E path \in ScenePaths : LoadFromFileNotFound(path)
    \/ \E path \in ScenePaths, opens \in 0..2 : LoadFromFile(path, opens)
    \/ \E rayOrigin \in RayOrigins, rayDirection \in Directions,
          cameraPosition \in RayOrigins, cameraForward \in Directions,
          extent \in Extents, position \in Points :
          MousePick(rayOrigin, rayDirection, cameraPosition, cameraForward,
                    [i \in 1..MaxRenderables |-> extent],
                    [i \in 1..MaxRenderables |-> position])
    \/ \E crashes \in BOOLEAN, ret \in Addr \cup {NULL} : MousePickNoCamera(crashes, ret)

SpecCamera == Init /\ [][NextCamera]_vars

\* ---------------------------------------------------------------- C6..C10
\* the identifiers of the GameObjects of a cache
CacheIds(q) == {objs[q[i]].id : i \in 1..Len(q)}

\* a LoadFromFile call has returned true
Loaded == Returned("LoadFromFile") /\ call.ret

\* after a successful load the registry has the count, the identifiers and
\* the parent/child relationships of the scene that was saved, the child
\* sets agree with the parent links, and the directional lights and the
\* renderables are those of the saved scene
RoundTripExceptCamera ==
    Loaded =>
        LET now == SceneById(objs, m_gameObjects)
        IN /\ now.count = saved.count
           /\ now.ids = saved.ids
           /\ Cardinality(now.ids) = now.count
           /\ now.parentOf = saved.parentOf
           /\ \A a \in DOMAIN objs :
                 Range(objs[a].children) = {b \in DOMAIN objs : objs[b].parent = a}
           /\ CacheIds(m_lightsDirectional) = saved.lightsDirectional
           /\ CacheIds(m_renderables) = saved.renderables
           /\ IdOf(objs, m_mainCamera) \in
                 (IF saved.cameras = {} THEN {NULL} ELSE saved.cameras)
           /\ Cardinality(saved.cameras) <= 1 =>
                 IdOf(objs, m_mainCamera) = saved.mainCamera

\* C6: after SaveToFile, Clear and LoadFromFile of the saved file, the
\* registry has the same count, identifiers and parent/child relationships,
\* and the re-resolved caches name the same camera, directional lights and
\* renderables as the saved scene.
C6_RoundTrip ==
    /\ RoundTripExceptCamera
    /\ Loaded => IdOf(objs, m_mainCamera) = saved.mainCamera

\* C7: LoadFromFile of a path that does not exist returns false and leaves
\* the heap, the registry, the caches, the resources and the files as they
\* were; nothing is deleted and no subsystem is unloaded, reset or cleared.
C7_LoadMissingFileChangesNothing ==
    [][(call'.op = "LoadFromFile" /\ ~files[call'.arg].exists) =>
          /\ call'.ret = FALSE
          /\ UNCHANGED <<objs, nextId, m_gameObjects, caches, m_resources, files>>
          /\ \A i \in 1..Len(callLog') :
                callLog'[i][1] \notin {"delete", "Unload", "Scripting::Reset",
                                       "Physics::Reset", "Renderer::Clear"}]_vars

\* a load of a missing file has returned on a scene with a camera and a
\* loaded resource
C7_Witness ==
    /\ Returned("LoadFromFile")
    /\ ~FileExists(call.arg)
    /\ ~call.ret
    /\ m_mainCamera # NULL
    /\ m_resources # <<>>

\* C8: when LoadFromFile of an existing file returns false (one of the two
\* StartReading calls failed), the registry is empty, no GameObject is
\* alive and all caches are empty.
C8_FailedLoadLeavesEmptyScene ==
    (Returned("LoadFromFile") /\ FileExists(call.arg) /\ ~call.ret) =>
        /\ m_gameObjects = <<>>
        /\ objs = <<>>
        /\ Caches = EmptyCaches

\* the second StartReading has failed in a load that deleted GameObjects
C8_Witness ==
    /\ Returned("LoadFromFile")
    /\ FileExists(call.arg)
    /\ ~call.ret
    /\ Cardinality(LogIndexes("StartReading")) = 2
    /\ LogIndexes("delete") # {}

\* the calls that write to the stream or close it
WriteEvents == {"WriteVectorSTR", "WriteInt", "WriteSTR", "Serialize", "StopWriting"}

\* C9: SaveToFile returns false exactly when StartWriting fails, and then
\* nothing is written and no file changes; when it returns true the stream
\* was opened, everything was written to it and it was closed last.
C9_SaveFailsOnlyUnopened ==
    [][call'.op = "SaveToFile" =>
          LET log == callLog'
              opened == log[2][2]
          IN /\ log[2][1] = "StartWriting"
             /\ call'.ret = opened
             /\ ~opened =>
                   /\ files' = files
                   /\ \A i \in 1..Len(log) : log[i][1] \notin WriteEvents
             /\ opened =>
                   /\ log[Len(log)][1] = "StopWriting"
                   /\ \A i \in 3..(Len(log) - 1) : log[i][1] \in WriteEvents \ {"StopWriting"}
                   /\ files'[call'.arg].exists
                   /\ files'[call'.arg].data =
                         Concat([i \in 1..(Len(log) - 3) |-> log[i + 2][2]])]_vars

\* a save of a scene with GameObjects and a resource has failed
C9_Witness ==
    /\ Returned("SaveToFile")
    /\ ~call.ret
    /\ m_gameObjects # <<>>
    /\ m_resources # <<>>

\* C10: a successful SaveToFile writes the resource paths, the number R of
\* root GameObjects, the R root identifiers in registry order, then R
\* payloads, the i-th being that of the i-th root, and nothing else; the
\* file holds exactly that.
C10_SaveLayout ==
    (Returned("SaveToFile") /\ call.ret) =>
        LET roots  == SelectSeq(m_gameObjects, LAMBDA g : objs[g].parent = NULL)
            R      == Len(roots)
            writes == SubSeq(callLog, 3, Len(callLog) - 1)
            data   == files[call.arg].data
            n      == Len(m_resources)
        IN /\ Len(writes) = 2 + 2 * R
           /\ writes[1][1] = "WriteVectorSTR"
           /\ writes[2][1] = "WriteInt"
           /\ \A i \in 1..R : /\ writes[2 + i][1] = "WriteSTR"
                              /\ writes[2 + i][2] = <<<<"str", objs[roots[i]].id>>>>
                              /\ writes[2 + R + i][1] = "Serialize"
                              /\ writes[2 + R + i][2][1] = <<"str", objs[roots[i]].id>>
           /\ data[1] = <<"int", n>>
           /\ \A i \in 1..n : data[1 + i] = <<"str", m_resources[i]>>
           /\ data[n + 2] = <<"int", R>>
           /\ \A i \in 1..R : data[n + 2 + i] = <<"str", objs[roots[i]].id>>
           /\ Len(data) = n + 2 + R
                 + Len(Concat([i \in 1..R |-> writes[2 + R + i][2]]))
           /\ SubSeq(data, n + 3 + R, Len(data)) =
                 Concat([i \in 1..R |-> writes[2 + R + i][2]])

\* a scene with two roots, a child and a resource has been saved
C10_Witness ==
    /\ Returned("SaveToFile")
    /\ call.ret
    /\ Len(GetRootGameObjects(objs, m_gameObjects)) = 2
    /\ Len(m_gameObjects) = 3
    /\ m_resources # <<>>

\* ---------------------------------------------------------------- C11..C20
\* the last thing the call recorded in call has done is a Resolve
ResolvedLast == callLog # <<>> /\ callLog[Len(callLog)][1] = "Resolve"

\* the GameObjects of the registry with a component of type t
WithComponent(t) == {i \in 1..Len(m_gameObjects) : t \in objs[m_gameObjects[i]].comps}

\* C11: when Resolve has run, the active camera is the last GameObject of
\* the registry with a Camera (null if none has one) and the active skybox
\* the last one with a Skybox (null if none): earlier matches are overwritten.
C11_LastCameraAndSkybox ==
    ResolvedLast =>
        /\ m_mainCamera = LastSuchThat(m_gameObjects, LAMBDA g : HasCamera(objs, g))
        /\ m_skybox = LastSuchThat(m_gameObjects, LAMBDA g : HasSkybox(objs, g))
        /\ WithComponent("Camera") = {} => m_mainCamera = NULL
        /\ WithComponent("Skybox") = {} => m_skybox = NULL

\* Resolve has run on a registry with two cameras and a skybox, or with two
\* skyboxes and a camera
C11_Witness ==
    /\ Returned("Resolve")
    /\ WithComponent("Camera") # {}
    /\ WithComponent("Skybox") # {}
    /\ Cardinality(WithComponent("Camera")) + Cardinality(WithComponent("Skybox")) = 3

\* C12: a Resolve changes neither the registry nor any GameObject, and a
\* Resolve that directly follows a Resolve leaves all five caches as the
\* first one left them.
C12_ResolveIdempotent ==
    [][call'.op = "Resolve" =>
          /\ m_gameObjects' = m_gameObjects
          /\ objs' = objs
          /\ call.op = "Resolve" => caches' = caches]_vars

\* Resolve has run twice in a row on a scene with a camera, a renderable
\* and a light
C12_Witness ==
    /\ Returned("Resolve")
    /\ call.arg = 2
    /\ m_mainCamera # NULL
    /\ m_renderables # <<>>
    /\ m_lightsDirectional \o m_lightsPoint # <<>>

WithID(id) == {i \in 1..Len(m_gameObjects) : objs[m_gameObjects[i]].id = id}
WithName(name) == {i \in 1..Len(m_gameObjects) : objs[m_gameObjects[i]].name = name}

\* C13: GetGameObjectByID and GetGameObjectByName return the GameObject at
\* the least position of the registry whose identifier (name) is the
\* argument, null when there is none, and change neither the registry nor
\* the GameObjects nor the caches.
C13_LookupFirstMatch ==
    /\ [](Returned("GetGameObjectByID") =>
            call.ret = IF WithID(call.arg) = {} THEN NULL
                       ELSE m_gameObjects[Min(WithID(call.arg))])
    /\ [](Returned("GetGameObjectByName") =>
            call.ret = IF WithName(call.arg) = {} THEN NULL
                       ELSE m_gameObjects[Min(WithName(call.arg))])
    /\ [][call'.op \in {"GetGameObjectByID", "GetGameObjectByName"} =>
            UNCHANGED <<objs, m_gameObjects, caches>>]_vars

\* a name that two GameObjects of the registry have was looked up
C13_Witness ==
    /\ Returned("GetGameObjectByName")
    /\ Cardinality(WithName(call.arg)) = 2
    /\ Len(m_gameObjects) = 3
    /\ call.ret # m_gameObjects[1]

\* C14: GameObjectExists(e) is false for null; otherwise it is true exactly
\* when the registry holds a GameObject with the identifier of e, so it is
\* false once e has been removed by RemoveGameObject.
C14_ExistsIffInRegistry ==
    Returned("GameObjectExists") =>
        /\ call.arg = NULL => call.ret = FALSE
        /\ call.arg # NULL => call.ret = (WithID(held.id) # {})

\* of the MousePick call recorded in call: the renderables it kept as
\* candidates, and the square of the distance of a renderable from the camera
PickCandidates == {callLog[i][2] : i \in 1..Len(callLog)}
PickDistanceSquared(g) == DistanceSquared(call.arg.position[g], call.arg.cameraPosition)
PickRayHits(g) ==
    RaySphereIntersect(call.arg.rayOrigin, call.arg.rayDirection,
                       Radius(call.arg.extent[g]))
CameraRayHits(g) ==
    RaySphereIntersect(call.arg.cameraPosition, call.arg.cameraForward,
                       Radius(call.arg.extent[g]))

\* C19: in MousePick a renderable (not the skybox) hit by the pick ray is a
\* candidate exactly when the ray from the camera's position along its
\* forward vector hits its sphere too; it is discarded when that ray misses.
C19_KeptOnlyIfBothRaysHit ==
    Returned("MousePick") =>
        \A g \in Range(m_renderables) :
            ("Skybox" \notin objs[g].comps /\ PickRayHits(g)) =>
                (g \in PickCandidates <=> CameraRayHits(g))

\* C20: MousePick never returns the skybox; it returns the candidate with
\* the least distance from the camera whatever that distance is, the first
\* of them in the order of m_renderables when several are as close, and it
\* returns nothing exactly when there is no candidate.
C20_ClosestCandidateReturned ==
    Returned("MousePick") =>
        /\ call.ret # NULL => "Skybox" \notin objs[call.ret].comps
        /\ call.ret = NULL <=> PickCandidates = {}
        /\ call.ret # NULL =>
              /\ call.ret \in PickCandidates
              /\ \A g \in PickCandidates :
                    PickDistanceSquared(call.ret) <= PickDistanceSquared(g)
              /\ \A i \in 1..Len(callLog) :
                    PickDistanceSquared(callLog[i][2]) = PickDistanceSquared(call.ret)
                        => \E j \in 1..i : callLog[j][2] = call.ret

\* the components and the light type of every live GameObject
ComponentsOf(os) == [a \in DOMAIN os |-> <<os[a].comps, os[a].lightType>>]

\* C16: once Initialize has subscribed the handlers, an update event runs
\* Resolve once, after which the caches equal the classification from
\* scratch; a render event calls Update once on each GameObject of the
\* registry, each of them alive; caches that equal the classification stay
\* equal while the registry and the components do not change; and in every
\* run of the frames the caches end up equal to the classification for good
C16_TicksKeepCachesFresh ==
    /\ [][call'.op = "Resolve" =>
            /\ Cardinality({i \in 1..Len(callLog') : callLog'[i][1] = "Resolve"}) = 1
            /\ Caches' = FromScratch(objs, m_gameObjects)
            /\ CachesFresh']_vars
    /\ [][call'.op = "Update" =>
            /\ SelectSeq(callLog', LAMBDA e : e[1] = "Update")
                 = [i \in 1..Len(m_gameObjects) |-> <<"Update", m_gameObjects[i], TRUE>>]
            /\ Range(m_gameObjects) \subseteq DOMAIN objs]_vars
    /\ [][(CachesFresh /\ m_gameObjects' = m_gameObjects
                       /\ ComponentsOf(objs') = ComponentsOf(objs)) => CachesFresh']_vars
    /\ <>[]CachesFresh
    /\ (~CachesFresh /\ pc = "idle") ~> Returned("Resolve")

\* C16 witness: the caches were stale (a Light was made directional after
\* the Resolve of its attachment) and the update event has resolved them
C16_Witness ==
    /\ Returned("Resolve")
    /\ handlers = Subscriptions
    /\ \E g \in Range(m_gameObjects) :
          /\ objs[g].name # "DirectionalLight"
          /\ m_lightsDirectional = <<g>>

\* the task the worker has just run, when it has just run one
LastRan == worker.ran[Len(worker.ran)]
AsyncCalls == {"SaveToFileAsync", "LoadFromFileAsync"}
SyncOf(op) == IF op = "SaveToFileAsync" THEN "SaveToFile" ELSE "LoadFromFile"

\* C17: a call of SaveToFileAsync(p) or LoadFromFileAsync(p) puts exactly
\* one task, the synchronous operation with the path p, at the end of the
\* queue and changes nothing else: not the registry, the heap, the caches
\* or the files; the tasks given are never dropped, doubled or reordered
\* (the sequence of tasks run, running and waiting only grows, at its end
\* and by an async call of the calling thread; a step of the worker thread
\* leaves it as it is and returns from no call of the caller); a task the worker finishes is the one it took
\* from the head of the queue, and it has had the effect of SaveToFile /
\* LoadFromFile of that path; and the worker eventually runs every task
C17_AsyncQueuesOneTaskRunOnce ==
    /\ [][worker' = worker =>
            IF call'.op \in AsyncCalls
            THEN /\ tasks' = Append(tasks, <<SyncOf(call'.op), call'.arg>>)
                 /\ AllTasks' = Append(AllTasks, <<SyncOf(call'.op), call'.arg>>)
                 /\ UNCHANGED <<objs, m_gameObjects, caches, io, worker>>
            ELSE AllTasks' = AllTasks]_vars
    /\ [][worker' # worker =>
            /\ AllTasks' = AllTasks
            /\ tasks' = tasks \/ (tasks # <<>> /\ tasks' = Tail(tasks))
            /\ call' = call]_vars
    /\ [][Len(worker.ran') > Len(worker.ran) =>
            /\ worker.ran' = Append(worker.ran, LastRan')
            /\ worker.task = <<LastRan'[1], LastRan'[2]>>
            /\ worker'.task = <<>>
            /\ (LastRan'[1] = "SaveToFile" /\ LastRan'[3]) =>
                  /\ files'[WithSceneExtension(LastRan'[2])] =
                        [exists |-> TRUE,
                         data |-> Written(SaveCalls(objs, m_gameObjects, m_resources))]
                  /\ UNCHANGED <<objs, m_gameObjects, caches>>
            /\ (LastRan'[1] = "LoadFromFile" /\ LastRan'[3]) =>
                  /\ FileExists(LastRan'[2])
                  /\ SceneById(objs', m_gameObjects').ids = saved.ids
                  /\ CachesFresh'
            /\ (LastRan'[1] = "LoadFromFile" /\ ~FileExists(LastRan'[2])) =>
                  /\ ~LastRan'[3]
                  /\ UNCHANGED <<objs, m_gameObjects, caches, io>>]_vars
    /\ \A n \in 1..MaxTasks : (Len(AllTasks) >= n) ~> (Len(worker.ran) >= n)

\* C17 witness: a save and a load of the saved file were queued, the caller
\* has gone on, and the worker has run both, the load giving back the three
\* GameObjects of the initialized scene
C17_Witness ==
    /\ Len(worker.ran) = 2
    /\ worker.ran[1] = <<"SaveToFile", <<"x", "">>, TRUE>>
    /\ worker.ran[2] = <<"LoadFromFile", <<"x", SCENE_EXTENSION>>, TRUE>>
    /\ Len(m_gameObjects) = 3
    /\ Returned("Update")

\* C18: no frame tick uses a destroyed GameObject (Update calls it, Resolve
\* asks it for its components) and every cache entry a render tick finds
\* is a GameObject of the registry
C18_TicksSeeOnlyLiveGameObjects ==
    call.op \in {"Update", "Resolve"} =>
        \A i \in 1..Len(callLog) : callLog[i][3]

\* ---------------------------------------------------------------- C21..C30
\* what Clear does in a call, and what a load does after it, as log entries
ClearEvents == {"delete", "Unload", "Scripting::Reset", "Physics::Reset", "Renderer::Clear"}
LoadEvents == {"Load<Mesh>", "Load<Material>", "Load<Texture>"}
CreateEvents == {"new", "Deserialize"}
\* the positions of the log of the step's call with an event of E
IndexesIn(log, E) == {i \in 1..Len(log) : log[i][1] \in E}
\* the GameObjects of the caches
Cached ==
    Range(m_renderables) \cup Range(m_lightsDirectional) \cup Range(m_lightsPoint)
    \cup ({m_mainCamera, m_skybox} \ {NULL})

\* C21: a LoadFromFile call on an existing file deletes every GameObject the
\* registry had when it was called, each once, unloads the resource cache
\* and resets scripting, physics and renderer, each once, all of it before
\* the first resource is loaded and the first GameObject is created; when
\* it has returned true no GameObject is alive but those of the registry,
\* which are as many as the file holds, and every cache entry is one of them
C21_LoadClearsBeforeLoading ==
    [][(call'.op = "LoadFromFile" /\ files[call'.arg].exists) =>
          /\ SelectSeq(callLog', LAMBDA e : e[1] = "delete")
                = [i \in 1..Len(m_gameObjects) |-> <<"delete", m_gameObjects[i]>>]
          /\ \A ev \in ClearEvents \ {"delete"} :
                Cardinality(IndexesIn(callLog', {ev})) = 1
          /\ \A i \in IndexesIn(callLog', ClearEvents),
                j \in IndexesIn(callLog', LoadEvents \cup CreateEvents) : i < j
          /\ Range(m_resources') = {callLog'[i][2] : i \in IndexesIn(callLog', LoadEvents)}
          /\ DOMAIN objs' = Range(m_gameObjects')
          /\ call'.ret =>
                /\ Len(m_gameObjects') = saved.count
                /\ Cached' \subseteq Range(m_gameObjects')]_vars

\* C21 witness: a load has returned true that deleted GameObjects, loaded a
\* mesh and created roots and descendants
C21_Witness ==
    /\ Loaded
    /\ LogIndexes("delete") # {}
    /\ LogIndexes("new") # {}
    /\ Len(m_gameObjects) > Cardinality(LogIndexes("new"))
    /\ LogIndexes("Load<Mesh>") # {}

\* the root count the file of the returned LoadFromFile call stores, and
\* the identifiers of the roots it stores after it, in stored order
StoredRootCount ==
    LET data == files[call.arg].data
    IN data[data[1][2] + 2][2]
StoredRootIds ==
    LET data == files[call.arg].data
    IN [i \in 1..StoredRootCount |-> data[data[1][2] + 2 + i][2]]

\* C22: when LoadFromFile has returned true and the file stores the root
\* count R, the first R entries of the registry are roots that carry the
\* stored identifiers in stored order and the entries after them are the
\* descendants appended during the loop; exactly R GameObjects were
\* pre-allocated; Deserialize was called once on each of the registry
\* indexes 1..R, in that order, and on no other; every GameObject of the
\* saved scene is in the registry once; Resolve ran once, as the last
\* thing and after the second StopReading
C22_LoadDeserializesStoredRoots ==
    Loaded =>
        LET R == StoredRootCount
            resolves == LogIndexes("Resolve")
        IN /\ Len(m_gameObjects) >= R
           /\ \A i \in 1..R :
                 /\ objs[m_gameObjects[i]].id = StoredRootIds[i]
                 /\ objs[m_gameObjects[i]].parent = NULL
           /\ \A i \in (R + 1)..Len(m_gameObjects) : objs[m_gameObjects[i]].parent # NULL
           /\ SelectSeq(callLog, LAMBDA e : e[1] = "ReadInt") = <<<<"ReadInt", R>>>>
           /\ SelectSeq(callLog, LAMBDA e : e[1] = "new")
                 = [i \in 1..R |-> <<"new", StoredRootIds[i]>>]
           /\ SelectSeq(callLog, LAMBDA e : e[1] = "Deserialize")
                 = [i \in 1..R |-> <<"Deserialize", i>>]
           /\ Len(m_gameObjects) = saved.count
           /\ {objs[g].id : g \in Range(m_gameObjects)} = saved.ids
           /\ \A g \in Range(m_gameObjects) :
                 <<objs[g].id, IdOf(objs, objs[g].parent)>> \in saved.parentOf
           /\ resolves = {Len(callLog)}
           /\ Cardinality(LogIndexes("StopReading")) = 2
           /\ \A i \in LogIndexes("StopReading") : i < Len(callLog)

\* C22 witness: a load of a file with two roots has returned true with a
\* registry of three GameObjects
C22_Witness ==
    /\ Loaded
    /\ StoredRootCount = 2
    /\ Len(m_gameObjects) = 3

\* the resource paths the file of the returned LoadFromFile call stores
StoredResourcePaths ==
    LET data == files[call.arg].data
    IN [i \in 1..data[1][2] |-> data[1 + i][2]]
\* the Load<kind> calls the returned call made with the path r
LoadsOf(r) == {i \in IndexesIn(callLog, LoadEvents) : callLog[i][2] = r}
\* the first StartReading of the returned call opened the file
ReadResourcePaths == LogIndexes("ReadVectorSTR") # {}

\* C23: in a LoadFromFile call that got to read the resource paths, a
\* stored path is loaded once when a test accepts it, as a mesh when the
\* mesh test does, else as a material when the material test does, else as
\* an image, and not at all when no test accepts it; nothing else is
\* loaded; the resource cache then holds the loaded paths; a path that is
\* skipped does not make the call fail (it returns true when the second
\* StartReading opens the file); every load precedes the creation of the
\* first GameObject
C23_ResourcesLoadedOnceByKind ==
    (Returned("LoadFromFile") /\ FileExists(call.arg) /\ ReadResourcePaths) =>
        /\ \A r \in Range(StoredResourcePaths) :
              LET kind == IF IsSupportedMeshFile(r) THEN "Load<Mesh>"
                          ELSE IF IsSupportedMaterialFile(r) THEN "Load<Material>"
                          ELSE IF IsSupportedImageFile(r) THEN "Load<Texture>"
                          ELSE "none"
              IN IF kind = "none" THEN LoadsOf(r) = {}
                 ELSE /\ Cardinality(LoadsOf(r)) = 1
                      /\ \A i \in LoadsOf(r) : callLog[i][1] = kind
        /\ \A i \in IndexesIn(callLog, LoadEvents) :
              callLog[i][2] \in Range(StoredResourcePaths)
        /\ Range(m_resources) = {r \in Range(StoredResourcePaths) : LoadsOf(r) # {}}
        /\ Len(m_resources) = Cardinality(Range(m_resources))
        /\ call.ret = (\A i \in LogIndexes("StartReading") : callLog[i][2])
        /\ \A i \in IndexesIn(callLog, LoadEvents), j \in IndexesIn(callLog, CreateEvents) :
              i < j

\* C23 witness: a load has returned true of a file that stores a path no
\* test accepts, a path all three tests accept and an image, and a root
C23_Witness ==
    /\ Loaded
    /\ {"MouseLook.as", "scan.any", "sky.png"} \subseteq Range(StoredResourcePaths)
    /\ LogIndexes("Load<Texture>") # {}
    /\ LogIndexes("new") # {}

\* C24: when Resolve has returned, m_renderables is the GameObjects of the
\* registry with a MeshFilter and a MeshRenderer, m_lightsDirectional those
\* with a directional Light and m_lightsPoint those with a point Light,
\* each in registry order and without a GameObject twice; no GameObject is
\* in both light vectors, and one with a Light of another type is in neither
C24_ResolveClassifiesExactly ==
    Returned("Resolve") =>
        /\ m_renderables = SelectSeq(m_gameObjects, LAMBDA g :
              "MeshFilter" \in objs[g].comps /\ "MeshRenderer" \in objs[g].comps)
        /\ m_lightsDirectional = SelectSeq(m_gameObjects, LAMBDA g :
              "Light" \in objs[g].comps /\ objs[g].lightType = "Directional")
        /\ m_lightsPoint = SelectSeq(m_gameObjects, LAMBDA g :
              "Light" \in objs[g].comps /\ objs[g].lightType = "Point")
        /\ \A q \in {m_renderables, m_lightsDirectional, m_lightsPoint} :
              Cardinality(Range(q)) = Len(q)
        /\ Range(m_lightsDirectional) \cap Range(m_lightsPoint) = {}
        /\ \A g \in Range(m_gameObjects) :
              ("Light" \in objs[g].comps /\ objs[g].lightType \in OtherLightTypes) =>
                  g \notin Range(m_lightsDirectional) \cup Range(m_lightsPoint)

\* C24 witness: Resolve has returned on a registry of a GameObject with a
\* Light of another type and, after it, one with a point Light
C24_Witness ==
    /\ Returned("Resolve")
    /\ Len(m_gameObjects) >= 2
    /\ "Light" \in objs[m_gameObjects[1]].comps
    /\ objs[m_gameObjects[1]].lightType \in OtherLightTypes
    /\ m_lightsPoint = <<m_gameObjects[2]>>

\* the positions of the registry whose GameObject has the identifier of e
Matches(e) ==
    IF e = NULL THEN {}
    ELSE {i \in 1..Len(m_gameObjects) : objs[m_gameObjects[i]].id = objs[e].id}

\* C25: a RemoveSingleGameObject(e) call with e null or with no GameObject
\* of the registry having the identifier of e leaves heap, registry and
\* caches as they are and runs no Resolve; otherwise it deletes the first
\* GameObject of the registry with that identifier and no other, the rest
\* of the registry keeps its order, and Resolve runs once, after the erase
C25_RemoveSingleRemovesFirstMatch ==
    [][call'.op = "RemoveSingleGameObject" =>
          LET e == call'.arg
          IN IF Matches(e) = {}
             THEN /\ UNCHANGED <<objs, m_gameObjects, caches>>
                  /\ callLog' = <<>>
             ELSE LET k == Min(Matches(e))
                  IN /\ m_gameObjects' = Erase(m_gameObjects, k)
                     /\ DOMAIN objs' = DOMAIN objs \ {m_gameObjects[k]}
                     /\ \A a \in DOMAIN objs' : objs'[a] = objs[a]
                     /\ callLog' = <<<<"delete", m_gameObjects[k]>>,
                                     <<"erase", m_gameObjects[k]>>, <<"Resolve", NULL>>>>
                     /\ CachesFresh']_vars

\* C25 witness: the call was made with a live GameObject that is not in the
\* registry, on a scene of two GameObjects whose caches are stale
C25_Witness ==
    /\ Returned("RemoveSingleGameObject")
    /\ call.arg \in DOMAIN objs
    /\ call.arg \notin Range(m_gameObjects)
    /\ Len(m_gameObjects) = 2
    /\ ~CachesFresh

\* C25 witness: the call has removed the first of three GameObjects
C25_WitnessRemoved ==
    /\ Returned("RemoveSingleGameObject")
    /\ Len(call.gameObjects) = 3
    /\ m_gameObjects = Tail(call.gameObjects)

\* C26: whenever no call is in progress, every GameObject the caches name
\* (camera, skybox, renderables, directional and point lights) is in the
\* registry, and every GameObject of the registry is alive
C26_NoDanglingCacheReferences ==
    pc = "idle" =>
        /\ Cached \subseteq Range(m_gameObjects)
        /\ Range(m_gameObjects) \subseteq DOMAIN objs

\* C26 witness: RemoveGameObject has removed the GameObject that was the
\* active camera while a skybox and a light stay in the caches
C26_Witness ==
    /\ Returned("RemoveGameObject")
    /\ \A g \in Range(m_gameObjects) : "Camera" \notin objs[g].comps
    /\ m_mainCamera = NULL
    /\ m_skybox # NULL
    /\ m_lightsPoint # <<>>
    /\ LogIndexes("delete") # {}

\* C26 witness: a failed load has emptied a scene that had a camera
C26_WitnessFailedLoad ==
    /\ Returned("LoadFromFile")
    /\ ~call.ret
    /\ FileExists(call.arg)
    /\ LogIndexes("delete") # {}
    /\ Cached = {}

\* C27: a SaveToFile call, whatever it returns, leaves the heap (identifiers,
\* parent and child links), the registry, the caches and the resource cache
\* as they are; it saves the resource metadata once, before it tries to
\* open the stream; and when the stream is not opened that is all it does
C27_SaveLeavesSceneUnchanged ==
    [][call'.op = "SaveToFile" =>
          /\ UNCHANGED <<objs, m_gameObjects, caches, nextId, m_resources>>
          /\ callLog'[1] = <<"SaveResourceMetadata", NULL>>
          /\ IndexesIn(callLog', {"SaveResourceMetadata"}) = {1}
          /\ \A i \in IndexesIn(callLog', {"StartWriting"}) : i > 1
          /\ ~call'.ret =>
                /\ files' = files
                /\ callLog' = <<<<"SaveResourceMetadata", NULL>>,
                                <<"StartWriting", FALSE>>>>]_vars

\* C27 witness: a save has failed on a scene with a parent link whose
\* caches are stale
C27_Witness ==
    /\ Returned("SaveToFile")
    /\ ~call.ret
    /\ ~CachesFresh
    /\ \E g \in Range(m_gameObjects) : objs[g].parent # NULL

\* the stream events of the log, and the number of streams open after the
\* first k entries of the log
StreamStarts == {"StartWriting", "StartReading"}
StreamStops == {"StopWriting", "StopReading"}
StreamUses == {"WriteVectorSTR", "WriteInt", "WriteSTR", "Serialize",
               "ReadVectorSTR", "ReadInt", "new", "Deserialize"}
OpenAfter(k) ==
    Cardinality({i \in 1..k : callLog[i][1] \in StreamStarts /\ callLog[i][2]})
    - Cardinality({i \in 1..k : callLog[i][1] \in StreamStops})

\* C28: when SaveToFile or LoadFromFile has returned, true or false, no
\* stream is open; in the course of the call a stream was started only
\* when none was open, stopped only when one was open (so never after a
\* start that failed) and used only while open; a start that failed ended
\* the call; and a load that returned true started and stopped the read
\* stream twice
C28_StreamsOpenedAreClosed ==
    (Returned("SaveToFile") \/ Returned("LoadFromFile")) =>
        /\ OpenAfter(Len(callLog)) = 0
        /\ \A k \in 1..Len(callLog) :
              /\ callLog[k][1] \in StreamStarts => OpenAfter(k - 1) = 0
              /\ callLog[k][1] \in StreamStops \cup StreamUses => OpenAfter(k - 1) = 1
              /\ (callLog[k][1] \in StreamStarts /\ ~callLog[k][2]) =>
                    (k = Len(callLog) /\ ~call.ret)
        /\ (call.op = "SaveToFile" /\ call.ret) =>
              /\ Cardinality(LogIndexes("StartWriting")) = 1
              /\ Cardinality(LogIndexes("StopWriting")) = 1
        /\ Loaded =>
              /\ Cardinality(LogIndexes("StartReading")) = 2
              /\ Cardinality(LogIndexes("StopReading")) = 2

\* C28 witness: a load has returned false because its second StartReading
\* failed, after the first stream was read and closed
C28_Witness ==
    /\ Returned("LoadFromFile")
    /\ ~call.ret
    /\ Cardinality(LogIndexes("StartReading")) = 2
    /\ Cardinality(LogIndexes("StopReading")) = 1
    /\ IndexesIn(callLog, LoadEvents) # {}

\* C29: of the threads of the pool that run queued saves and loads, at most
\* one has a stream of the Serializer open at a time
C29_SerializerUsedByOneTask == Cardinality(StreamOpen) <= 1

\* C30: MousePick never crashes, and called when no GameObject has a Camera
\* (m_mainCamera is nullptr) it returns no GameObject
C30_MousePickWithoutCameraReturnsNothing ==
    /\ pc # "crashed"
    /\ Returned("MousePick") /\ call.arg = [camera |-> NULL] => call.ret = NULL
====
